---------------------------- MODULE Spec2Model ----------------------------
(***************************************************************************)
(* RouterOS API client of crispy-waffle (src/unnamed/part_000):            *)
(*   - the length-prefix codec and the sentence decoder (decodePackets),   *)
(*   - the receive path of rosConnect (buffer append, decode, carry-over), *)
(*   - one rosConnect connection: login, FIFO request queue, teardown,     *)
(*   - MikrotikService.connect: the connection pool and its retry loop.    *)
(*                                                                         *)
(* Bytes are naturals 0..255, a Buffer is a sequence of bytes, a JS string *)
(* is a sequence of UTF-16 code units (naturals), a sentence is a sequence *)
(* of words.  Offsets are 0-based as in the source; At(data, i) is buf[i].   *)
(***************************************************************************)
EXTENDS Integers, Sequences, FiniteSets, TLC

VARIABLES
    \* ---- length-prefix round trip (encodeLength / prefix decoding)
    lenIn,      \* the length L handed to encodeLength
    lenEnc,     \* encodeLength(L), <<>> while not yet encoded
    lenDec,     \* what the prefix decoding read back, LenPending while not yet decoded
    \* ---- receive path on its own (encodeSentence, decodePackets, carry-over)
    sents,      \* the sentences the sender encodes
    cphase,     \* "input" before the sender has encoded, "feeding" afterwards
    stream,     \* bytes of the sender not yet delivered
    rbuf,       \* the receiver's buffer `buf` (part_000:278)
    outS,       \* sentences decoded so far, in order
    chunks,     \* data events delivered so far: "none", "one", "two" or "many"
    \* ---- one connection made by rosConnect
    sock,       \* the socket: "connecting", "open", "closing" (destroyed or ended,
                \* its close event not yet emitted) or "closed"
    loggedIn,   \* part_000:279
    destroyed,  \* part_000:280
    buf,        \* part_000:278
    queue,      \* part_000:284, items [id, accumulator]
    connP,      \* the promise rosConnect returns: [st, err]
    toRouter,   \* bytes written to the socket, not yet read by the router
    rx,         \* bytes sent by the router, not yet delivered in a data event
    rxCuts,     \* the byte lengths of the sentences that make up rx
    plan,       \* per request, the reply the router chose for it
    loginPlan,  \* the sentences the router chose to answer /login with, <<>> before
    outcome,    \* per request, the promise write returned: [st, rows, err, calls]
    submitted,  \* ids of the requests that were enqueued, in submission order
    settleLog,  \* per request settled by a terminal sentence, in order: [req, term,
                \* behind], term the number of that terminal sentence, behind the
                \* number of requests queued behind it at that moment
    termSeen,   \* terminal sentences seen by the data handler after login
    strays,     \* sentences the router sent that answer no request
    \* ---- MikrotikService.connect and the pool, for one router id
    pool,       \* pool[this.poolKey]: the number of a connection, 0 for no entry
    conns,      \* per connect() call, the connection its current rosConnect made
    callers,    \* the connect() calls: [pc, attempt, result, err, ...]
    \* ---- the TLS handshake of rosConnect
    tls,        \* [fingerprint, digest, chainOk]: opts.caFingerprint ("" for none),
                \* the SHA-256 digest, in hex, of the certificate the server
                \* presents, and whether its chain verifies against the CAs
    \* ---- getPeers and the cache, for one router id
    cache,      \* cache[this.cacheKey]: NoEntry or [data, ts]
    otherCache, \* cache[`peers_1`]: the entry of another router
    \* ---- POST /api/:server/peers and GET /api/:server/suggest
    posts,      \* per request: its position in the handler, body and response
    routerPeers, \* the rows of the peers the router holds
    wire,       \* the requests written that the router has not answered yet
    replies,    \* the router's replies the data handler has not seen yet
    sug,        \* findNextFreeIP: the peer list given and the result
    now,        \* Date.now(), in ms
    peers,      \* the number of peers configured on the router
    gets,       \* the getPeers() calls: [pc, rows, result, fetches, epoch]
    muts,       \* the addPeer/togglePeer/removePeer calls: [pc, op, seq]
    chan,       \* per connection, the calls whose request is outstanding on
                \* it, oldest first (its queue, part_000:284)
    fetched,    \* how many mutations the router had applied when it read the
                \* list that is in the cache
    \* ---- the row parser of the data handler on its own
    row,        \* [sentence, obj, parsed]: a !re sentence and the object made of it
    \* ---- addPeer's comment and _parsePeer
    peerIo,     \* [pc, data, comment, sentence, obj, out]: the data given to
                \* addPeer or the comment another tool gave the peer, the row
                \* sentence of the peer, the row object, the result of _parsePeer
    \* ---- the connection of src/src/mikrotik.js (with sock, loggedIn, buf, connP)
    pendingResolve, \* mikrotik.js:77, the request whose resolver it holds, 0 for null
    pendingReject,  \* mikrotik.js:78
    pendingData     \* mikrotik.js:79

lenVars   == <<lenIn, lenEnc, lenDec>>
codecVars == <<sents, cphase, stream, rbuf, outS, chunks>>
connVars  == <<sock, loggedIn, destroyed, buf, queue, connP, toRouter, rx, rxCuts,
               plan, loginPlan, outcome, submitted, settleLog, termSeen>>
strayVars == <<strays>>
slotVars  == <<pendingResolve, pendingReject, pendingData>>
fnVars    == <<row, peerIo, slotVars>>
poolVars  == <<pool, conns, callers>>
tlsVars   == <<tls>>
apiVars   == <<posts, routerPeers, wire, replies, sug>>
cacheVars == <<cache, otherCache, now, peers, gets, muts, chan, fetched>>
vars      == <<lenVars, codecVars, connVars, strayVars, poolVars, tlsVars, apiVars, cacheVars,
               fnVars>>

-----------------------------------------------------------------------------
(* Bounds of the model *)

\* lengths within LenDelta of each boundary of the prefix table are tried
LenDelta == 3
\* a sender's byte stream holds at most MaxSentences sentences ...
MaxSentences == 2
\* ... with at most MaxStreamWords words in total
MaxStreamWords == 3
\* write is called at most MaxReq times on the connection
MaxReq == 2
\* MikrotikService.connect is called at most NCalls times
NCalls == 2
\* calls of getPeers
NGets == 2
\* the clock stops at MaxNow ms
MaxNow == 10000
\* peers the router may hold
MaxPeers == 1
\* calls of addPeer, togglePeer and removePeer
NMuts == 1
\* sentences a router sends without having been asked
MaxStray == 1
\* characters of an attribute word given to the row parser
MaxWordLen == 5
\* characters of a private key given to addPeer
MaxKeyLen == 3

-----------------------------------------------------------------------------
(* JavaScript integer operators.  Every operand of the model is a natural
   below 2^31, where ToInt32 is the identity, >> is the floor of a division
   and << a multiplication; TLC reports an overflow of its 32-bit integers
   as an error, so no value is silently wrapped. *)

RECURSIVE Pow2(_)
Pow2(n) == IF n = 0 THEN 1 ELSE 2 * Pow2(n - 1)

RECURSIVE BitAnd(_, _)
\* a & b
BitAnd(a, b) ==
    IF a = 0 \/ b = 0 THEN 0
    ELSE ((a % 2) * (b % 2)) + (2 * BitAnd(a \div 2, b \div 2))

RECURSIVE BitOr(_, _)
\* a | b
BitOr(a, b) ==
    IF a = 0 THEN b
    ELSE IF b = 0 THEN a
    ELSE (IF a % 2 = 1 \/ b % 2 = 1 THEN 1 ELSE 0) + (2 * BitOr(a \div 2, b \div 2))

\* a >> n
Shr(a, n) == a \div Pow2(n)
\* a << n
Shl(a, n) == a * Pow2(n)

\* Buffer.from([...]) stores each element modulo 256
Byte(x) == x % 256

At(data, i) == data[i + 1]

\* data.subarray(from, to), 0-based, end exclusive
Subarray(data, from, to) == SubSeq(data, from + 1, to)

-----------------------------------------------------------------------------
(* Encoder *)

encodeLength_OffByOne(len) ==
    IF len <= 128 THEN <<Byte(len)>>
    ELSE IF len < 16384
        THEN <<Byte(BitOr(BitAnd(Shr(len, 8), 63), 128)), Byte(BitAnd(len, 255))>>
    ELSE IF len < 2097152
        THEN <<Byte(BitOr(BitAnd(Shr(len, 16), 31), 192)),
               Byte(BitAnd(Shr(len, 8), 255)),
               Byte(BitAnd(len, 255))>>
    ELSE IF len < 268435456
        THEN <<Byte(BitOr(BitAnd(Shr(len, 24), 15), 224)),
               Byte(BitAnd(Shr(len, 16), 255)),
               Byte(BitAnd(Shr(len, 8), 255)),
               Byte(BitAnd(len, 255))>>
    ELSE <<240,
           Byte(BitAnd(Shr(len, 24), 255)),
           Byte(BitAnd(Shr(len, 16), 255)),
           Byte(BitAnd(Shr(len, 8), 255)),
           Byte(BitAnd(len, 255))>>

encodeLength(len) ==
    IF len < 128 THEN <<Byte(len)>>
    ELSE IF len < 16384
        THEN <<Byte(BitOr(BitAnd(Shr(len, 8), 63), 128)), Byte(BitAnd(len, 255))>>
    ELSE IF len < 2097152
        THEN <<Byte(BitOr(BitAnd(Shr(len, 16), 31), 192)),
               Byte(BitAnd(Shr(len, 8), 255)),
               Byte(BitAnd(len, 255))>>
    ELSE IF len < 268435456
        THEN <<Byte(BitOr(BitAnd(Shr(len, 24), 15), 224)),
               Byte(BitAnd(Shr(len, 16), 255)),
               Byte(BitAnd(Shr(len, 8), 255)),
               Byte(BitAnd(len, 255))>>
    ELSE <<240,
           Byte(BitAnd(Shr(len, 24), 255)),
           Byte(BitAnd(Shr(len, 16), 255)),
           Byte(BitAnd(Shr(len, 8), 255)),
           Byte(BitAnd(len, 255))>>

\* Buffer.from(word, "utf8") for one UTF-16 code unit; a lone surrogate is
\* written as U+FFFD (the alphabets used here hold no surrogate pair)
Utf8Unit(cp) ==
    IF cp < 128 THEN <<cp>>
    ELSE IF cp < 2048 THEN <<192 + (cp \div 64), 128 + (cp % 64)>>
    ELSE IF cp >= 55296 /\ cp <= 57343 THEN <<239, 191, 189>>
    ELSE <<224 + (cp \div 4096), 128 + ((cp \div 64) % 64), 128 + (cp % 64)>>

RECURSIVE Utf8Encode(_)
Utf8Encode(word) ==
    IF word = <<>> THEN <<>> ELSE Utf8Unit(Head(word)) \o Utf8Encode(Tail(word))

IsCont(b) == b >= 128 /\ b < 192

\* data.toString("utf8"): 1-, 2- and 3-byte forms; any other byte decodes to U+FFFD
RECURSIVE Utf8Decode(_)
Utf8Decode(bytes) ==
    IF bytes = <<>> THEN <<>>
    ELSE LET b0 == bytes[1]
             n  == Len(bytes)
         IN  IF b0 < 128 THEN <<b0>> \o Utf8Decode(Tail(bytes))
             ELSE IF b0 >= 194 /\ b0 < 224 /\ n >= 2 /\ IsCont(bytes[2])
                 THEN <<(b0 - 192) * 64 + (bytes[2] - 128)>>
                      \o Utf8Decode(SubSeq(bytes, 3, n))
             ELSE IF b0 >= 224 /\ b0 < 240 /\ n >= 3 /\ IsCont(bytes[2]) /\ IsCont(bytes[3])
                     /\ (b0 - 224) * 4096 + (bytes[2] - 128) * 64 + (bytes[3] - 128) >= 2048
                 THEN <<(b0 - 224) * 4096 + (bytes[2] - 128) * 64 + (bytes[3] - 128)>>
                      \o Utf8Decode(SubSeq(bytes, 4, n))
             ELSE <<65533>> \o Utf8Decode(Tail(bytes))

\* (the _CharLen variant prefixes the number of characters, not of bytes)
encodeWord_CharLen(word) ==
    LET body == Utf8Encode(word) IN encodeLength(Len(word)) \o body
encodeWord(word) ==
    LET body == Utf8Encode(word) IN encodeLength(Len(body)) \o body

RECURSIVE ConcatAll(_)
ConcatAll(parts) ==
    IF parts = <<>> THEN <<>> ELSE Head(parts) \o ConcatAll(Tail(parts))

encodeSentence(words) ==
    ConcatAll([k \in 1..Len(words) |-> encodeWord(words[k])] \o << <<0>> >>)

-----------------------------------------------------------------------------
(* Decoder *)

NoPrefix == [ok |-> FALSE, len |-> 0, skip |-> 0]

\* the length prefix at offset i of data (part_000:93-129); ok = FALSE is `break outer`
DecodePrefix(data, i) ==
    LET b0 == At(data, i) IN
    IF BitAnd(b0, 240) = 240 THEN
        IF i + 5 > Len(data) THEN NoPrefix
        ELSE [ok |-> TRUE, skip |-> 5,
              len |-> At(data, i + 1) * 16777216 + Shl(At(data, i + 2), 16)
                      + Shl(At(data, i + 3), 8) + At(data, i + 4)]
    ELSE IF BitAnd(b0, 224) = 224 THEN
        IF i + 4 > Len(data) THEN NoPrefix
        ELSE [ok |-> TRUE, skip |-> 4,
              len |-> BitAnd(b0, 15) * 16777216 + Shl(At(data, i + 1), 16)
                      + Shl(At(data, i + 2), 8) + At(data, i + 3)]
    ELSE IF BitAnd(b0, 192) = 192 THEN
        IF i + 3 > Len(data) THEN NoPrefix
        ELSE [ok |-> TRUE, skip |-> 3,
              len |-> Shl(BitAnd(b0, 31), 16) + Shl(At(data, i + 1), 8) + At(data, i + 2)]
    ELSE IF BitAnd(b0, 128) = 128 THEN
        IF i + 2 > Len(data) THEN NoPrefix
        ELSE [ok |-> TRUE, skip |-> 2, len |-> Shl(BitAnd(b0, 63), 8) + At(data, i + 1)]
    ELSE [ok |-> TRUE, skip |-> 1, len |-> b0]

RECURSIVE DecodeWords(_, _, _, _)
RECURSIVE DecodeSentences(_, _, _)

\* the inner `while (true)`: i is advanced past every word it reads, so a
\* `break outer` in the middle of a sentence leaves i after the words read so far
DecodeWords(data, i, sentences, sentence) ==
    IF i >= Len(data) THEN [sentences |-> sentences, i |-> i]
    ELSE LET p == DecodePrefix(data, i) IN
         IF ~p.ok THEN [sentences |-> sentences, i |-> i]
         ELSE IF p.len = 0
             THEN DecodeSentences(data, i + p.skip, Append(sentences, sentence))
         ELSE IF i + p.skip + p.len > Len(data) THEN [sentences |-> sentences, i |-> i]
         ELSE DecodeWords(data, i + p.skip + p.len, sentences,
                  Append(sentence,
                         Utf8Decode(Subarray(data, i + p.skip, i + p.skip + p.len))))

\* the loop `outer: while (i < data.length)`
DecodeSentences(data, i, sentences) ==
    IF i < Len(data) THEN DecodeWords(data, i, sentences, <<>>)
    ELSE [sentences |-> sentences, i |-> i]

decodePackets(data) ==
    LET r == DecodeSentences(data, 0, <<>>)
    IN  [sentences |-> r.sentences, remaining |-> Subarray(data, r.i, Len(data))]

\* the receive path of the data handler (part_000:302-304): append the chunk,
\* decode, keep `remaining` as the new buffer
Receive(data, chunk) ==
    LET d == decodePackets(data \o chunk)
    IN  [sentences |-> d.sentences, buf |-> d.remaining]

-----------------------------------------------------------------------------
(* Inputs *)

RECURSIVE SeqsUpTo(_, _)
\* all sequences over S of length 0..n
SeqsUpTo(S, n) ==
    IF n = 0 THEN {<<>>}
    ELSE LET shorter == SeqsUpTo(S, n - 1)
         IN  shorter \cup {Append(q, x) : q \in {r \in shorter : Len(r) = n - 1}, x \in S}

\* "a", "\u00e9b" (a two-byte character followed by "b") and the empty string
SampleWords == {<<97>>, <<233, 98>>, <<>>}

\* the lengths at and next to each boundary of the prefix table
LenBoundaries == {0, 127, 128, 16383, 16384, 2097151, 2097152, 268435455, 268435456}

LenInputs == {b + d : b \in LenBoundaries, d \in (0 - LenDelta)..LenDelta} \cap Nat

\* the word list ws cut into k sentences at the offsets cut[1] <= ... <= cut[k-1]
CutSentences(ws, k, cut) ==
    [j \in 1..k |->
        SubSeq(ws, (IF j = 1 THEN 0 ELSE cut[j - 1]) + 1,
                   IF j = k THEN Len(ws) ELSE cut[j])]

StreamInputs ==
    UNION { UNION { { CutSentences(ws, k, cut) :
                        cut \in {c \in [1..(k - 1) -> 0..Len(ws)] :
                                    \A j \in 1..(k - 2) : c[j] <= c[j + 1]} } :
                    k \in 1..MaxSentences } :
            ws \in SeqsUpTo(SampleWords, MaxStreamWords) }

EncodeAll(ss) == ConcatAll([k \in 1..Len(ss) |-> encodeSentence(ss[k])])

PoolIdle == pool = 0 /\ conns = <<>> /\ callers = <<>>

\* no cache entry
NoEntry == [data |-> <<>>, ts |-> 0 - 1]

ApiIdle   ==
    /\ posts = <<>> /\ routerPeers = <<>> /\ wire = <<>> /\ replies = <<>>
    /\ sug = <<>>
TlsIdle   == tls = [fingerprint |-> <<>>, digest |-> <<>>, chainOk |-> FALSE]
CacheIdle ==
    /\ cache = NoEntry /\ otherCache = NoEntry /\ now = 0 /\ peers = 0 /\ gets = <<>>
    /\ muts = <<>> /\ chan = <<>> /\ fetched = 0

LenPending == [ok |-> FALSE, len |-> 0 - 1, skip |-> 0]

\* the row parser has no input
NoRow     == [sentence |-> <<>>, obj |-> <<>>, parsed |-> FALSE]
FnIdle    ==
    /\ row = NoRow /\ peerIo = <<>>
    /\ pendingResolve = 0 /\ pendingReject = 0 /\ pendingData = <<>>
LenIdle   == lenIn = 0 /\ lenEnc = <<>> /\ lenDec = LenPending
CodecIdle == sents = <<>> /\ cphase = "input" /\ stream = <<>> /\ rbuf = <<>>
             /\ outS = <<>> /\ chunks = "none"

-----------------------------------------------------------------------------
(* Words of the protocol, as UTF-16 code units *)

\* "!done"
W_done == <<33, 100, 111, 110, 101>>
\* "!empty"
W_empty == <<33, 101, 109, 112, 116, 121>>
\* "!trap"
W_trap == <<33, 116, 114, 97, 112>>
\* "!fatal"
W_fatal == <<33, 102, 97, 116, 97, 108>>
\* "!re"
W_re == <<33, 114, 101>>
\* "=message="
W_message == <<61, 109, 101, 115, 115, 97, 103, 101, 61>>
\* "/login", "=name=u", "=password=p"
LoginSentence ==
    << <<47, 108, 111, 103, 105, 110>>,
       <<61, 110, 97, 109, 101, 61, 117>>,
       <<61, 112, 97, 115, 115, 119, 111, 114, 100, 61, 112>> >>

\* the digit of request r
Digit(r) == 48 + r

\* the sentence a caller writes for request r: "/p", "=.id=<r>"
RequestWords(r) == << <<47, 112>>, <<61, 46, 105, 100, 61, Digit(r)>> >>

\* an error message is a literal of the source or a value cut out of a word
Lit(s) == [lit |-> s, val |-> <<>>]
Val(w) == [lit |-> "", val |-> w]
NoErr  == Lit("")

-----------------------------------------------------------------------------
(* JavaScript string and array helpers *)

\* w.startsWith(pre)
StartsWith(w, pre) == Len(w) >= Len(pre) /\ SubSeq(w, 1, Len(pre)) = pre

\* w.slice(from)
Slice(w, from) == SubSeq(w, from + 1, Len(w))

\* w.slice(from, to)
SliceTo(w, from, to) == SubSeq(w, from + 1, to)

\* w.indexOf(ch, from) for a one-character ch: 0-based, -1 when absent
\* (the _Last variant is w.lastIndexOf(ch) where that is not below `from`)
IndexOf_Last(w, ch, from) ==
    LET hits == {k \in from..(Len(w) - 1) : w[k + 1] = ch}
    IN  IF hits = {} THEN 0 - 1 ELSE CHOOSE k \in hits : \A j \in hits : k >= j

IndexOf(w, ch, from) ==
    LET hits == {k \in from..(Len(w) - 1) : w[k + 1] = ch}
    IN  IF hits = {} THEN 0 - 1 ELSE CHOOSE k \in hits : \A j \in hits : k <= j

\* words.find(w => w.startsWith("=message="))?.slice(9) ?? dflt
\* (the _Default variant never looks for the word)
MessageOf_Default(words, dflt) == Lit(dflt)

MessageOf(words, dflt) ==
    LET hits == {k \in 1..Len(words) : StartsWith(words[k], W_message)}
    IN  IF hits = {} THEN Lit(dflt)
        ELSE Val(Slice(words[CHOOSE k \in hits : \A j \in hits : k <= j], 9))

\* obj[k] = v
Put(obj, k, v) == [x \in (DOMAIN obj) \cup {k} |-> IF x = k THEN v ELSE obj[x]]

RECURSIVE ParseWords(_, _)
\* the loop over s.slice(1) of the row parser (part_000:355-358)
ParseWords(ws, obj) ==
    IF ws = <<>> THEN obj
    ELSE LET w  == Head(ws)
             eq == IndexOf(w, 61, 1)
         IN  ParseWords(Tail(ws),
                        IF eq > 0 THEN Put(obj, SliceTo(w, 1, eq), Slice(w, eq + 1))
                        ELSE obj)

ParseRow(s) == ParseWords(Tail(s), <<>>)

\* s[0] === "!re" (the _Any variant keeps every sentence of the accumulator)
IsRe_Any(s) == TRUE
IsRe(s) == s[1] = W_re

\* accumulator.filter(s => s[0] === "!re").map(parse)
ParseRows(accumulator) ==
    LET res == SelectSeq(accumulator, IsRe)
    IN  [k \in 1..Len(res) |-> ParseRow(res[k])]

-----------------------------------------------------------------------------
(* Promises *)

PendingP == [st |-> "pending", rows |-> <<>>, err |-> NoErr, calls |-> 0]
NoP      == [st |-> "none", rows |-> <<>>, err |-> NoErr, calls |-> 0]

\* resolve(rows) / reject(err): only the first call settles the promise;
\* calls counts the calls made
Resolve(p, rows) ==
    IF p.st = "pending"
    THEN [p EXCEPT !.st = "resolved", !.rows = rows, !.calls = @ + 1]
    ELSE [p EXCEPT !.calls = @ + 1]

Reject(p, err) ==
    IF p.st = "pending"
    THEN [p EXCEPT !.st = "rejected", !.err = err, !.calls = @ + 1]
    ELSE [p EXCEPT !.calls = @ + 1]

-----------------------------------------------------------------------------
(* rosConnect: the connection and its handlers *)

Terminals == {W_done, W_empty, W_trap, W_fatal}

\* the mutable state the handlers of one connection work on
ConnState ==
    [sock |-> sock, loggedIn |-> loggedIn, destroyed |-> destroyed, buf |-> buf,
     queue |-> queue, connP |-> connP, outcome |-> outcome, settleLog |-> settleLog,
     termSeen |-> termSeen]

Install(st) ==
    /\ sock' = st.sock
    /\ loggedIn' = st.loggedIn
    /\ destroyed' = st.destroyed
    /\ buf' = st.buf
    /\ queue' = st.queue
    /\ connP' = st.connP
    /\ outcome' = st.outcome
    /\ settleLog' = st.settleLog
    /\ termSeen' = st.termSeen

\* sock.destroy(): the close event follows later
SockDestroy(s) == IF s \in {"connecting", "open"} THEN "closing" ELSE s

\* bytes in flight are lost with the socket
Flight(st) ==
    IF st.sock = "open" THEN UNCHANGED <<toRouter, rx, rxCuts>>
    ELSE toRouter' = <<>> /\ rx' = <<>> /\ rxCuts' = <<>>

InQueue(q, r) == \E k \in 1..Len(q) : q[k].id = r

\* (the _HeadOnly variant rejects the first queued item only, the _KeepQueue
\* variant leaves out `queue.length = 0`)
destroyAll_KeepQueue(st, err) ==
    IF st.destroyed THEN st
    ELSE [st EXCEPT
            !.destroyed = TRUE,
            !.sock = SockDestroy(st.sock),
            !.outcome = [r \in DOMAIN st.outcome |->
                            IF \E k \in 1..Len(st.queue) : st.queue[k].id = r
                            THEN Reject(st.outcome[r], err)
                            ELSE st.outcome[r]]]

destroyAll_HeadOnly(st, err) ==
    IF st.destroyed THEN st
    ELSE [st EXCEPT
            !.destroyed = TRUE,
            !.sock = SockDestroy(st.sock),
            !.outcome = [r \in DOMAIN st.outcome |->
                            IF Len(st.queue) > 0 /\ st.queue[1].id = r
                            THEN Reject(st.outcome[r], err)
                            ELSE st.outcome[r]],
            !.queue = <<>>]

destroyAll(st, err) ==
    IF st.destroyed THEN st
    ELSE [st EXCEPT
            !.destroyed = TRUE,
            !.sock = SockDestroy(st.sock),
            !.outcome = [r \in DOMAIN st.outcome |->
                            IF InQueue(st.queue, r) THEN Reject(st.outcome[r], err)
                            ELSE st.outcome[r]],
            !.queue = <<>>]

\* queue.push(item) (part_000:424)
\* (the _Front variant puts the item at the head)
QueuePush_Front(q, item) == <<item>> \o q
QueuePush(q, item) == Append(q, item)

\* the head of the queue: queue[0] / queue.shift()
\* (the _Last variants take the newest item instead)
QueueHead_Last(q) == q[Len(q)]
QueueHead(q) == q[1]

QueueShift(q) == Tail(q)

\* `if (!queue.length) { ...; continue; }` (part_000:326-334): a sentence that
\* finds no request is logged, when debugging, and skipped
\* (the _Fatal variant tears the connection down)
Unexpected_Fatal(st, sentence) == destroyAll(st, Lit("Unexpected sentence"))
Unexpected(st, sentence) == st

\* the login phase `if (!loggedIn) { ...; continue; }` (part_000:311-324)
\* (the _AnyTerminal variant takes every terminal sentence for the
\* acceptance of the login)
LoginPhase_AnyTerminal(st, sentence) ==
    IF sentence[1] \in {W_done, W_trap, W_fatal}
        THEN [st EXCEPT !.loggedIn = TRUE, !.connP = Resolve(st.connP, <<>>)]
    ELSE st

LoginPhase(st, sentence) ==
    LET type == sentence[1] IN
    IF type = W_done
        THEN [st EXCEPT !.loggedIn = TRUE, !.connP = Resolve(st.connP, <<>>)]
    ELSE IF type = W_trap \/ type = W_fatal
        THEN LET err == MessageOf(sentence, "Login failed")
             IN  destroyAll([st EXCEPT !.connP = Reject(st.connP, err)], err)
    ELSE st

\* the body of `for (const sentence of sentences)` (part_000:306-364)
OnSentence(st, sentence) ==
    IF Len(sentence) = 0 THEN st
    ELSE LET type == sentence[1] IN
    IF ~st.loggedIn THEN LoginPhase(st, sentence)
    ELSE LET seen == IF type \in Terminals THEN st.termSeen + 1 ELSE st.termSeen IN
    IF Len(st.queue) = 0 THEN [Unexpected(st, sentence) EXCEPT !.termSeen = seen]
    ELSE LET head    == QueueHead(st.queue)
             current == [head EXCEPT !.accumulator = Append(@, sentence)]
         IN
    IF type \in Terminals THEN
        [st EXCEPT
            !.termSeen = seen,
            !.queue = QueueShift(st.queue),
            !.settleLog = Append(@, [req |-> current.id, term |-> seen,
                                     behind |-> Len(st.queue) - 1]),
            !.outcome[current.id] =
                IF type = W_trap \/ type = W_fatal
                THEN Reject(@, MessageOf(ConcatAll(current.accumulator), "RouterOS error"))
                ELSE Resolve(@, ParseRows(current.accumulator))]
    ELSE [st EXCEPT
            !.queue = [k \in 1..Len(st.queue) |->
                          IF st.queue[k].id = current.id THEN current ELSE st.queue[k]]]

RECURSIVE OnSentences(_, _)
OnSentences(st, ss) ==
    IF ss = <<>> THEN st ELSE OnSentences(OnSentence(st, Head(ss)), Tail(ss))

\* sock.on("data", chunk) (part_000:301-365)
DataHandler(st, chunk) ==
    LET r == Receive(st.buf, chunk)
    IN  OnSentences([st EXCEPT !.buf = r.buf], r.sentences)

\* sock.on("timeout") (part_000:390-394)
\* (the _SockOnly variant, once logged in, destroys the socket and leaves the
\* queue to the close handler)
TimeoutHandler_SockOnly(st) ==
    LET err == Lit("Connection timeout")
    IN  IF ~st.loggedIn THEN destroyAll([st EXCEPT !.connP = Reject(st.connP, err)], err)
        ELSE [st EXCEPT !.sock = SockDestroy(st.sock)]

TimeoutHandler(st) ==
    LET err == Lit("Connection timeout")
    IN  destroyAll(IF ~st.loggedIn THEN [st EXCEPT !.connP = Reject(st.connP, err)]
                   ELSE st,
                   err)

\* sock.on("error", err) (part_000:396-399); the socket is destroyed after an error
\* (the _Generic variant tears down with the close handler's error)
ErrorHandler_Generic(st) ==
    LET err == Lit("socket error")
        st1 == IF ~st.loggedIn THEN [st EXCEPT !.connP = Reject(st.connP, err)]
               ELSE destroyAll(st, Lit("Connection closed unexpectedly"))
    IN  [st1 EXCEPT !.sock = SockDestroy(st1.sock)]

ErrorHandler(st) ==
    LET err == Lit("socket error")
        st1 == IF ~st.loggedIn THEN [st EXCEPT !.connP = Reject(st.connP, err)]
               ELSE destroyAll(st, err)
    IN  [st1 EXCEPT !.sock = SockDestroy(st1.sock)]

\* the part of sock.on("close") after the pool hook (part_000:406)
CloseHandler(st) ==
    LET st1 == [st EXCEPT !.sock = "closed"]
    IN  IF Len(st1.queue) # 0
        THEN destroyAll(st1, Lit("Connection closed unexpectedly"))
        ELSE st1

\* api.close() (part_000:429-431)
ApiClose(st) == destroyAll(st, Lit("Closed by caller"))

\* the pool entry of a router id: 0 for none, else the number of a connection
\* pool[this.poolKey] = api (the _Skip variant forgets to store)
PoolStore_Skip(old, n) == old
PoolStore(old, n) == n

\* delete pool[this.poolKey]
PoolDelete(old) == 0

\* api._onClose (part_000:508-515), run for connection n
\* (the _Never variant is a hook that does not delete, the _Any variant one
\* that deletes whatever the entry is)
OnCloseHook_Never(old, n) == old
OnCloseHook_Any(old, n) == 0
OnCloseHook(old, n) == IF old = n THEN 0 ELSE old

\* in Spec the connection is number 1, made by one MikrotikService.connect
\* call: when a handler settles rosConnect's promise, connect goes on in the
\* same step and stores the handle (part_000:507-518) or deletes the entry
\* (part_000:521)
ServiceContinue(st) ==
    pool' = IF connP.st = "pending" /\ st.connP.st = "resolved" THEN PoolStore(pool, 1)
            ELSE IF connP.st = "pending" /\ st.connP.st = "rejected" THEN PoolDelete(pool)
            ELSE pool

\* every step of the connection of Spec leaves the other parts alone
ConnOnly == UNCHANGED <<lenVars, codecVars, conns, callers, tlsVars, apiVars, cacheVars, strayVars, fnVars>>

OnData(chunk) ==
    /\ sock = "open"
    /\ Install(DataHandler(ConnState, chunk))
    /\ ServiceContinue(DataHandler(ConnState, chunk))

\* sock.on("connect" / "secureConnect"): sendLogin
OnConnect ==
    /\ sock = "connecting"
    /\ sock' = "open"
    /\ toRouter' = toRouter \o encodeSentence(LoginSentence)
    /\ UNCHANGED <<loggedIn, destroyed, buf, queue, connP, rx, rxCuts, plan, loginPlan,
                   outcome, submitted, settleLog, termSeen, pool>>
    /\ ConnOnly

OnTimeout ==
    /\ sock \in {"connecting", "open"}
    /\ Install(TimeoutHandler(ConnState))
    /\ Flight(TimeoutHandler(ConnState))
    /\ ServiceContinue(TimeoutHandler(ConnState))
    /\ UNCHANGED <<plan, loginPlan, submitted>>
    /\ ConnOnly

OnError ==
    /\ sock \in {"connecting", "open"}
    /\ Install(ErrorHandler(ConnState))
    /\ Flight(ErrorHandler(ConnState))
    /\ ServiceContinue(ErrorHandler(ConnState))
    /\ UNCHANGED <<plan, loginPlan, submitted>>
    /\ ConnOnly

\* sock.on("close"): api._onClose?.() (set by connect once the promise was
\* resolved), then the rest of the handler
OnClose ==
    /\ sock = "closing"
    /\ pool' = IF connP.st = "resolved" THEN OnCloseHook(pool, 1) ELSE pool
    /\ Install(CloseHandler(ConnState))
    /\ UNCHANGED <<toRouter, rx, rxCuts, plan, loginPlan, submitted>>
    /\ ConnOnly

\* the router closes the connection after all it sent has been delivered:
\* the socket ends, its close event follows
RemoteEnd ==
    /\ sock = "open"
    /\ rx = <<>>
    /\ sock' = "closing"
    /\ toRouter' = <<>>
    /\ UNCHANGED <<loggedIn, destroyed, buf, queue, connP, rx, rxCuts, plan,
                   loginPlan, outcome, submitted, settleLog, termSeen, pool>>
    /\ ConnOnly

Issued == {r \in 1..MaxReq : outcome[r].st # "none"}

\* api.write(words), called by a holder of the resolved handle
Write ==
    /\ connP.st = "resolved"
    /\ Cardinality(Issued) < MaxReq
    /\ LET r == Cardinality(Issued) + 1 IN
       IF destroyed
       THEN /\ outcome' = [outcome EXCEPT
                              ![r] = Reject(PendingP, Lit("Connection already closed"))]
            /\ UNCHANGED <<queue, toRouter, submitted>>
       ELSE /\ outcome' = [outcome EXCEPT ![r] = PendingP]
            /\ queue' = QueuePush(queue, [id |-> r, accumulator |-> <<>>])
            /\ submitted' = Append(submitted, r)
            /\ toRouter' = IF sock = "open"
                           THEN toRouter \o encodeSentence(RequestWords(r))
                           ELSE toRouter
    /\ UNCHANGED <<sock, loggedIn, destroyed, buf, connP, rx, rxCuts, plan, loginPlan,
                   settleLog, termSeen, pool>>
    /\ ConnOnly

\* api.close(), called by a holder of the resolved handle
CallerClose ==
    /\ connP.st = "resolved"
    /\ Install(ApiClose(ConnState))
    /\ Flight(ApiClose(ConnState))
    /\ UNCHANGED <<plan, loginPlan, submitted, pool>>
    /\ ConnOnly

\* MikrotikService.disconnect() (part_000:536-542)
ServiceDisconnect ==
    /\ IF pool # 0
       THEN /\ Install(ApiClose(ConnState))
            /\ Flight(ApiClose(ConnState))
            /\ pool' = PoolDelete(pool)
       ELSE UNCHANGED <<sock, loggedIn, destroyed, buf, queue, connP, outcome,
                        settleLog, termSeen, toRouter, rx, rxCuts, pool>>
    /\ UNCHANGED <<plan, loginPlan, submitted>>
    /\ ConnOnly

-----------------------------------------------------------------------------
(* The router *)

NoPlan == [rows |-> <<>>, term |-> "none"]

\* what the router may answer to a request: no, one or two data rows, each
\* plain ("=n=<r>") or carrying a message attribute ("=message=r<r>"), then
\* one terminal sentence
RowPlans == {<<>>, <<"plain">>, <<"msg", "plain">>}

ReplyPlans == [rows : RowPlans, term : {"done", "empty", "trap", "fatal"}]

RowSentence(r, kind) ==
    IF kind = "plain" THEN <<W_re, <<61, 110, 61, Digit(r)>> >>
    ELSE <<W_re, W_message \o <<114, Digit(r)>> >>

TermSentence(r, term) ==
    IF term = "done" THEN <<W_done>>
    ELSE IF term = "empty" THEN <<W_empty>>
    ELSE IF term = "trap" THEN <<W_trap, W_message \o <<116, Digit(r)>> >>
    ELSE <<W_fatal>>

ReplySentences(r, pl) ==
    [k \in 1..Len(pl.rows) |-> RowSentence(r, pl.rows[k])] \o <<TermSentence(r, pl.term)>>

\* what the router may answer to /login
\* (!done; !trap =message=bad; !fatal; !trap =message=no then !done)
LoginReplies ==
    { <<(<<W_done>>)>>,
      <<(<<W_trap, W_message \o <<98, 97, 100>> >>)>>,
      <<(<<W_fatal>>)>>,
      <<(<<W_trap, W_message \o <<110, 111>> >>), (<<W_done>>)>> }

RouterSend(ss) ==
    /\ rx' = rx \o EncodeAll(ss)
    /\ rxCuts' = rxCuts \o [k \in 1..Len(ss) |-> Len(encodeSentence(ss[k]))]

\* the router reads the next sentence it was sent and answers it, a request
\* with one of `plans`
RouterReplyWith(plans) ==
    /\ sock = "open"
    /\ LET d == decodePackets(toRouter) IN
       /\ Len(d.sentences) > 0
       /\ LET s == d.sentences[1] IN
          /\ toRouter' = Slice(toRouter, Len(encodeSentence(s)))
          /\ IF s = LoginSentence
             THEN /\ \E ss \in LoginReplies : RouterSend(ss) /\ loginPlan' = ss
                  /\ UNCHANGED plan
             ELSE LET r == s[2][6] - 48 IN
                  \E pl \in plans :
                      /\ plan' = [plan EXCEPT ![r] = pl]
                      /\ RouterSend(ReplySentences(r, pl))
                      /\ UNCHANGED loginPlan
    /\ UNCHANGED <<sock, loggedIn, destroyed, buf, queue, connP, outcome, submitted,
                   settleLog, termSeen, pool>>
    /\ ConnOnly

RouterReply == RouterReplyWith(ReplyPlans)

RECURSIVE Sum(_)
Sum(q) == IF q = <<>> THEN 0 ELSE Head(q) + Sum(Tail(q))

\* one data event carrying the next k complete sentences of the router
DataSentences(k) ==
    /\ OnData(SubSeq(rx, 1, Sum(SubSeq(rxCuts, 1, k))))
    /\ IF sock' = "open"
       THEN /\ rx' = Slice(rx, Sum(SubSeq(rxCuts, 1, k)))
            /\ rxCuts' = Slice(rxCuts, k)
            /\ UNCHANGED toRouter
       ELSE toRouter' = <<>> /\ rx' = <<>> /\ rxCuts' = <<>>
    /\ UNCHANGED <<plan, loginPlan, submitted>>
    /\ ConnOnly

\* sentences a router may send although no request asked for them
StraySentences ==
    { <<W_done>>,
      <<W_re, <<61, 110, 61, 57>> >>,
      <<W_trap, W_message \o <<115>> >> }

\* the router, after it accepted the login and while it has nothing to read
\* and nothing under way, sends a sentence that answers no request
RouterStray(s) ==
    /\ sock = "open"
    /\ loginPlan # <<>> /\ loginPlan[Len(loginPlan)] = <<W_done>>
    /\ toRouter = <<>> /\ rx = <<>>
    /\ strays < MaxStray
    /\ strays' = strays + 1
    /\ RouterSend(<<s>>)
    /\ UNCHANGED <<sock, loggedIn, destroyed, buf, queue, connP, toRouter, plan,
                   loginPlan, outcome, submitted, settleLog, termSeen, pool>>
    /\ UNCHANGED <<lenVars, codecVars, conns, callers, tlsVars, apiVars, cacheVars, fnVars>>

-----------------------------------------------------------------------------
(* Spec: one connection, its callers and the router; every data event
   carries complete sentences *)

ConnIdle ==
    /\ sock = "closed" /\ loggedIn = FALSE /\ destroyed = FALSE /\ buf = <<>>
    /\ queue = <<>> /\ connP = NoP /\ toRouter = <<>> /\ rx = <<>> /\ rxCuts = <<>>
    /\ plan = <<>> /\ loginPlan = <<>> /\ outcome = <<>> /\ submitted = <<>>
    /\ settleLog = <<>>
    /\ termSeen = 0
    /\ strays = 0

Init ==
    /\ sock = "connecting"
    /\ loggedIn = FALSE
    /\ destroyed = FALSE
    /\ buf = <<>>
    /\ queue = <<>>
    /\ connP = PendingP
    /\ toRouter = <<>>
    /\ rx = <<>>
    /\ rxCuts = <<>>
    /\ plan = [r \in 1..MaxReq |-> NoPlan]
    /\ loginPlan = <<>>
    /\ outcome = [r \in 1..MaxReq |-> NoP]
    /\ submitted = <<>>
    /\ settleLog = <<>>
    /\ termSeen = 0
    /\ strays = 0
    /\ pool = 0
    /\ conns = <<>>
    /\ callers = <<>>
    /\ LenIdle
    /\ CodecIdle
    /\ TlsIdle
    /\ ApiIdle
    /\ CacheIdle
    /\ FnIdle

Next ==
    \/ OnConnect
    \/ RouterReply
    \/ \E k \in 1..Len(rxCuts) : DataSentences(k)
    \/ Write
    \/ OnTimeout
    \/ OnError
    \/ RemoteEnd
    \/ OnClose
    \/ CallerClose
    \/ ServiceDisconnect

Spec == Init /\ [][Next]_vars

\* one data row and !done, or !trap at once
ShortPlans ==
    {[rows |-> <<"plain">>, term |-> "done"], [rows |-> <<>>, term |-> "trap"]}

\* SpecStray: the connection with a router that also sends sentences nobody
\* asked for
NextStray ==
    \/ OnConnect
    \/ RouterReplyWith(ShortPlans)
    \/ \E s \in StraySentences : RouterStray(s)
    \/ \E k \in 1..Len(rxCuts) : DataSentences(k)
    \/ Write
    \/ RemoteEnd
    \/ OnClose

SpecStray == Init /\ [][NextStray]_vars

-----------------------------------------------------------------------------
(* SpecTls: rosConnect over TLS (part_000:247-271, 374-385).  tls.connect
   verifies the certificate chain when rejectUnauthorized is set, then calls
   checkServerIdentity; when either fails the socket is destroyed with an
   error and secureConnect is not emitted. *)

\* caFingerprint.replace(/[:\s]/g, "")
StripSeparators(fp) == SelectSeq(fp, LAMBDA c : c \notin {58, 32, 9, 10, 11, 12, 13})

\* .toLowerCase(), for ASCII
ToLowerCase(str) == [k \in 1..Len(str) |-> IF str[k] \in 65..90 THEN str[k] + 32 ELSE str[k]]

\* the checkServerIdentity callback (part_000:257-270): TRUE for `undefined`
\* (accepted), FALSE for the mismatch Error
\* (the _Unpinned variant never returns the Error)
checkServerIdentity_Unpinned(caFingerprint, fp) == TRUE
checkServerIdentity(caFingerprint, fp) ==
    LET want == ToLowerCase(StripSeparators(caFingerprint)) IN fp = want

\* rejectUnauthorized: !!(caCert || caFingerprint), no caCert configured
rejectUnauthorized(t) == t.fingerprint # <<>>

\* the handshake ends with secureConnect
HandshakeOk(t) ==
    /\ rejectUnauthorized(t) => t.chainOk
    /\ t.fingerprint # <<>> => checkServerIdentity(t.fingerprint, t.digest)

\* the configurations and certificates tried: no fingerprint, "ab1f", "AB:1F",
\* "Ab 1f", "ab2f", "AB:2F:"; certificates with digest ab1f or ab2f
FingerprintInputs ==
    { <<>>, <<97, 98, 49, 102>>, <<65, 66, 58, 49, 70>>, <<65, 98, 32, 49, 102>>,
      <<97, 98, 50, 102>>, <<65, 66, 58, 50, 70, 58>> }

DigestInputs == { <<97, 98, 49, 102>>, <<97, 98, 50, 102>> }

TlsInputs == [fingerprint : FingerprintInputs, digest : DigestInputs, chainOk : BOOLEAN]

TlsOnly == UNCHANGED <<lenVars, codecVars, conns, callers, tlsVars, apiVars, cacheVars, strayVars, fnVars>>

\* sock.on("secureConnect"): sendLogin
SecureConnect ==
    /\ sock = "connecting"
    /\ HandshakeOk(tls)
    /\ sock' = "open"
    /\ toRouter' = toRouter \o encodeSentence(LoginSentence)
    /\ UNCHANGED <<loggedIn, destroyed, buf, queue, connP, rx, rxCuts, plan, loginPlan,
                   outcome, submitted, settleLog, termSeen, pool>>
    /\ TlsOnly

\* the handshake fails: the socket emits error
HandshakeFail ==
    /\ sock = "connecting"
    /\ ~HandshakeOk(tls)
    /\ Install(ErrorHandler(ConnState))
    /\ Flight(ErrorHandler(ConnState))
    /\ ServiceContinue(ErrorHandler(ConnState))
    /\ UNCHANGED <<plan, loginPlan, submitted>>
    /\ TlsOnly

InitTls ==
    /\ tls \in TlsInputs
    /\ sock = "connecting"
    /\ loggedIn = FALSE
    /\ destroyed = FALSE
    /\ buf = <<>>
    /\ queue = <<>>
    /\ connP = PendingP
    /\ toRouter = <<>>
    /\ rx = <<>>
    /\ rxCuts = <<>>
    /\ plan = [r \in 1..MaxReq |-> NoPlan]
    /\ loginPlan = <<>>
    /\ outcome = [r \in 1..MaxReq |-> NoP]
    /\ submitted = <<>>
    /\ settleLog = <<>>
    /\ termSeen = 0
    /\ strays = 0
    /\ pool = 0
    /\ conns = <<>>
    /\ callers = <<>>
    /\ LenIdle
    /\ CodecIdle
    /\ ApiIdle
    /\ CacheIdle
    /\ FnIdle

NextTls ==
    \/ SecureConnect
    \/ HandshakeFail
    \/ RouterReply
    \/ \E k \in 1..Len(rxCuts) : DataSentences(k)
    \/ OnTimeout
    \/ RemoteEnd
    \/ OnClose
    \/ ServiceDisconnect

SpecTls == InitTls /\ [][NextTls]_vars

-----------------------------------------------------------------------------
(* MikrotikService.connect and the pool (part_000:445-542), for one router id.
   A continuation of an async function runs as a microtask of the event that
   settled the awaited promise, before any other socket or timer event: the
   step of that event includes it. *)

\* config.routeros.maxRetries
maxRetries == 3

\* this.srv.host
Host == "router-0"

FreshConn ==
    [sock |-> "connecting", loggedIn |-> FALSE, destroyed |-> FALSE, buf |-> <<>>,
     queue |-> <<>>, connP |-> PendingP, outcome |-> <<>>, settleLog |-> <<>>,
     termSeen |-> 0,
     hook |-> FALSE,        \* api._onClose is set
     answered |-> FALSE]    \* the router has answered /login

\* the connection of a call that has made none yet, or whose rosConnect
\* promise was rejected: the socket of a rejected connection is destroyed, no
\* caller and no pool entry refers to it, its _onClose is null and its queue
\* empty, so none of its later events changes anything and it is dropped
NoConn ==
    [sock |-> "closed", loggedIn |-> FALSE, destroyed |-> TRUE, buf |-> <<>>,
     queue |-> <<>>, connP |-> NoP, outcome |-> <<>>, settleLog |-> <<>>,
     termSeen |-> 0, hook |-> FALSE, answered |-> TRUE]

NoError == [host |-> "", msg |-> NoErr]

IdleCaller ==
    [pc |-> "idle", attempt |-> 0, result |-> 0, err |-> NoError,
     caught |-> NoErr,      \* err.message in the catch block that threw
     logins |-> 0,          \* rosConnect calls made by this call
     fails |-> 0,           \* attempts of this call that failed
     after |-> {},          \* calls that had returned a handle, still open and not
                            \* destroyed, when this call was made
     poolAtReject |-> 0,    \* pool[this.poolKey] when this call rejected
     closedBehind |-> FALSE, \* the close event of this call's connection was
                            \* processed while the pool held another connection
     usable |-> TRUE]       \* the handle returned was not destroyed when returned

\* new Error(`Gagal konek ke router ${host}: ${err.message}`)
WrapError(host, msg) == [host |-> host, msg |-> msg]

\* `return this.connect(attempt + 1)` stands in the catch block: a rejection
\* of the inner call passes through the outer call as it is
\* (the _Rewrap variant is the call awaited inside the try block)
PassThrough_Rewrap(host, e) == WrapError(host, e)
PassThrough(host, e) == e

RECURSIVE Unwind(_, _, _)
\* the rejection of the call of attempt number `level`, seen from the first call
Unwind(host, e, level) ==
    IF level <= 1 THEN e ELSE Unwind(host, PassThrough(host, e), level - 1)

\* (the _Inclusive variant retries once more)
MayRetry_Inclusive(attempt) == attempt <= maxRetries
\* `attempt < config.routeros.maxRetries`
MayRetry(attempt) == attempt < maxRetries

\* the handle is open and was never destroyed
Undisturbed(n) == conns[n].sock = "open" /\ ~conns[n].destroyed

\* connect(attempt) up to its first await (part_000:478-505)
EnterConnect(c, attempt) ==
    IF pool # 0
    THEN /\ callers' = [callers EXCEPT ![c].pc = "returned", ![c].result = pool,
                                      ![c].attempt = attempt,
                                      ![c].usable = ~conns[pool].destroyed]
         /\ UNCHANGED <<pool, conns>>
    ELSE /\ conns' = [conns EXCEPT ![c] = FreshConn]
         /\ callers' = [callers EXCEPT ![c].pc = "awaiting", ![c].attempt = attempt,
                                      ![c].logins = @ + 1]
         /\ UNCHANGED pool

\* after an event on the connection made by call c: the call, if it awaits
\* rosConnect's promise, goes on when the event settled it (part_000:507-532)
Continue(c, st) ==
    LET n == c
    IN  IF callers[c].pc # "awaiting" \/ st.connP.st = "pending"
        THEN /\ conns' = [conns EXCEPT ![n] = st]
             /\ UNCHANGED <<pool, callers>>
        ELSE IF st.connP.st = "resolved"
             THEN /\ conns' = [conns EXCEPT ![n] = [st EXCEPT !.hook = TRUE]]
                  /\ pool' = PoolStore(pool, n)
                  /\ callers' = [callers EXCEPT ![c].pc = "returned", ![c].result = n,
                                                  ![c].usable = ~st.destroyed]
             ELSE /\ conns' = [conns EXCEPT ![n] = NoConn]
                  /\ pool' = PoolDelete(pool)
                  /\ IF MayRetry(callers[c].attempt)
                     THEN callers' = [callers EXCEPT ![c].pc = "sleeping",
                                                     ![c].fails = @ + 1]
                     ELSE callers' =
                            [callers EXCEPT
                                ![c].pc = "rejected",
                                ![c].caught = st.connP.err,
                                ![c].fails = @ + 1,
                                ![c].err = Unwind(Host, WrapError(Host, st.connP.err),
                                                  callers[c].attempt),
                                ![c].poolAtReject = pool']

PoolOnly == UNCHANGED <<lenVars, codecVars, connVars, tlsVars, apiVars, cacheVars, strayVars, fnVars>>

\* a caller calls connect()
CallConnect(c) ==
    /\ callers[c].pc = "idle"
    /\ IF c = 1 THEN TRUE ELSE callers[c - 1].pc # "idle"
    /\ LET seen == {a \in 1..NCalls : /\ callers[a].pc = "returned"
                                      /\ Undisturbed(callers[a].result)}
       IN  IF pool # 0
           THEN /\ callers' = [callers EXCEPT ![c].pc = "returned", ![c].result = pool,
                                             ![c].attempt = 1, ![c].after = seen,
                                             ![c].usable = ~conns[pool].destroyed]
                /\ UNCHANGED <<pool, conns>>
           ELSE /\ conns' = [conns EXCEPT ![c] = FreshConn]
                /\ callers' = [callers EXCEPT ![c].pc = "awaiting", ![c].attempt = 1,
                                             ![c].logins = @ + 1, ![c].after = seen]
                /\ UNCHANGED pool
    /\ PoolOnly

\* sleep(retryDelay) is over: this.connect(attempt + 1)
RetryConnect(c) ==
    /\ callers[c].pc = "sleeping"
    /\ EnterConnect(c, callers[c].attempt + 1)
    /\ PoolOnly

\* the socket of connection n is connected: sendLogin
PoolSockConnect(n) ==
    /\ conns[n].sock = "connecting"
    /\ conns' = [conns EXCEPT ![n].sock = "open"]
    /\ UNCHANGED <<pool, callers>>
    /\ PoolOnly

\* the router's answer to /login arrives on connection n
PoolLoginReply(n, reply) ==
    /\ conns[n].sock = "open"
    /\ ~conns[n].answered
    /\ Continue(n, DataHandler([conns[n] EXCEPT !.answered = TRUE], EncodeAll(reply)))
    /\ PoolOnly

PoolTimeout(n) ==
    /\ conns[n].sock \in {"connecting", "open"}
    /\ Continue(n, TimeoutHandler(conns[n]))
    /\ PoolOnly

PoolError(n) ==
    /\ conns[n].sock \in {"connecting", "open"}
    /\ Continue(n, ErrorHandler(conns[n]))
    /\ PoolOnly

\* the router closes connection n
PoolRemoteEnd(n) ==
    /\ conns[n].sock = "open"
    /\ conns' = [conns EXCEPT ![n].sock = "closing"]
    /\ UNCHANGED <<pool, callers>>
    /\ PoolOnly

\* sock.on("close") of connection n: api._onClose?.(), then the rest of the
\* handler
PoolClose(n) ==
    /\ conns[n].sock = "closing"
    /\ pool' = IF conns[n].hook THEN OnCloseHook(pool, n) ELSE pool
    /\ conns' = [conns EXCEPT ![n] = CloseHandler(conns[n])]
    /\ callers' = [callers EXCEPT
                      ![n].closedBehind = @ \/ (conns[n].hook /\ pool \notin {0, n})]
    /\ PoolOnly

\* disconnect() (part_000:536-542)
Disconnect ==
    /\ pool # 0
    /\ conns' = [conns EXCEPT ![pool] = ApiClose(conns[pool])]
    /\ pool' = 0
    /\ UNCHANGED callers
    /\ PoolOnly

InitPool ==
    /\ pool = 0
    /\ conns = [c \in 1..NCalls |-> NoConn]
    /\ callers = [c \in 1..NCalls |-> IdleCaller]
    /\ LenIdle
    /\ CodecIdle
    /\ ConnIdle
    /\ TlsIdle
    /\ ApiIdle
    /\ CacheIdle
    /\ FnIdle

NextPool ==
    \/ \E c \in 1..NCalls : CallConnect(c)
    \/ \E c \in 1..NCalls : RetryConnect(c)
    \/ \E n \in 1..NCalls : PoolSockConnect(n)
    \/ \E n \in 1..NCalls : \E reply \in LoginReplies : PoolLoginReply(n, reply)
    \/ \E n \in 1..NCalls : PoolTimeout(n)
    \/ \E n \in 1..NCalls : PoolError(n)
    \/ \E n \in 1..NCalls : PoolRemoteEnd(n)
    \/ \E n \in 1..NCalls : PoolClose(n)
    \/ Disconnect

SpecPool == InitPool /\ [][NextPool]_vars

-----------------------------------------------------------------------------
(* SpecLen: encodeLength followed by the decoder's prefix decoding *)

InitLen ==
    /\ lenIn \in LenInputs
    /\ lenEnc = <<>>
    /\ lenDec = LenPending
    /\ CodecIdle
    /\ ConnIdle
    /\ PoolIdle
    /\ TlsIdle
    /\ ApiIdle
    /\ CacheIdle
    /\ FnIdle

LenEncode ==
    /\ lenEnc = <<>>
    /\ lenEnc' = encodeLength(lenIn)
    /\ UNCHANGED <<lenIn, lenDec, codecVars, connVars, poolVars, tlsVars, apiVars, cacheVars, strayVars, fnVars>>

LenDecode ==
    /\ lenEnc # <<>>
    /\ lenDec = LenPending
    /\ lenDec' = DecodePrefix(lenEnc, 0)
    /\ UNCHANGED <<lenIn, lenEnc, codecVars, connVars, poolVars, tlsVars, apiVars, cacheVars, strayVars, fnVars>>

NextLen == LenEncode \/ LenDecode

SpecLen == InitLen /\ [][NextLen]_vars

-----------------------------------------------------------------------------
(* SpecCodec: a sender encodes sentences, the receive path gets the bytes in
   chunks cut at arbitrary byte offsets *)

InitCodec ==
    /\ sents \in StreamInputs
    /\ cphase = "input"
    /\ stream = <<>>
    /\ rbuf = <<>>
    /\ outS = <<>>
    /\ chunks = "none"
    /\ LenIdle
    /\ ConnIdle
    /\ PoolIdle
    /\ TlsIdle
    /\ ApiIdle
    /\ CacheIdle
    /\ FnIdle

SenderEncode ==
    /\ cphase = "input"
    /\ cphase' = "feeding"
    /\ stream' = EncodeAll(sents)
    /\ UNCHANGED <<sents, rbuf, outS, chunks, lenVars, connVars, poolVars, tlsVars, apiVars, cacheVars, strayVars, fnVars>>

\* one data event carrying the next n bytes
Feed(n) ==
    /\ cphase = "feeding"
    /\ LET r == Receive(rbuf, SubSeq(stream, 1, n))
       IN  /\ rbuf' = r.buf
           /\ outS' = outS \o r.sentences
    /\ stream' = SubSeq(stream, n + 1, Len(stream))
    /\ chunks' = IF chunks = "none" THEN "one"
                 ELSE IF chunks = "one" THEN "two" ELSE "many"
    /\ UNCHANGED <<sents, cphase, lenVars, connVars, poolVars, tlsVars, apiVars, cacheVars, strayVars, fnVars>>

NextCodec == SenderEncode \/ \E n \in 1..Len(stream) : Feed(n)

SpecCodec == InitCodec /\ [][NextCodec]_vars

Delivered == cphase = "feeding" /\ stream = <<>>

-----------------------------------------------------------------------------
(* Claims *)

\* C2 (as claimed): once all bytes of the sender have been delivered, however
\* they were cut into chunks, the receive path has produced the same sentences
\* as decoding the whole byte stream in one chunk.
C2_ReassemblyEquivalence ==
    Delivered => outS = decodePackets(EncodeAll(sents)).sentences

\* C3 (as claimed): one sentence, delivered in one chunk, decodes to exactly
\* that sentence with an empty remainder, empty-string words included.
C3_RoundTripAnyWords ==
    (Delivered /\ chunks = "one" /\ Len(sents) = 1) => (outS = sents /\ rbuf = <<>>)

NoEmptyWord(sentence) == \A k \in 1..Len(sentence) : sentence[k] # <<>>

\* C3 (amended): one sentence none of whose words is the empty string,
\* delivered in one chunk, decodes to exactly that sentence with an empty
\* remainder.
C3_RoundTripNonEmptyWords ==
    (Delivered /\ chunks = "one" /\ Len(sents) = 1 /\ NoEmptyWord(sents[1]))
        => (outS = sents /\ rbuf = <<>>)

C3_Witness ==
    /\ Delivered /\ chunks = "one"
    /\ sents = << <<(<<233, 98>>), (<<97>>)>> >>
    /\ outS = sents

\* the byte count and the top bits of the first byte that the prefix table
\* gives for the range of L
TableShape(L, enc) ==
    IF L <= 127 THEN Len(enc) = 1 /\ enc[1] < 128
    ELSE IF L <= 16383 THEN Len(enc) = 2 /\ enc[1] \div 64 = 2
    ELSE IF L <= 2097151 THEN Len(enc) = 3 /\ enc[1] \div 32 = 6
    ELSE IF L <= 268435455 THEN Len(enc) = 4 /\ enc[1] \div 16 = 14
    ELSE Len(enc) = 5 /\ enc[1] = 240

\* C4: for every length at and next to a table boundary, encodeLength gives
\* the byte count and top-bit pattern of the table, and the decoder's prefix
\* decoding reads the same length back, consuming exactly those bytes.
C4_LengthRoundTrip ==
    /\ lenEnc # <<>> => TableShape(lenIn, lenEnc)
    /\ lenDec # LenPending =>
          (lenDec.ok /\ lenDec.len = lenIn /\ lenDec.skip = Len(lenEnc))

C4_Witness ==
    /\ lenIn = 268435456
    /\ Len(lenEnc) = 5
    /\ lenDec.ok /\ lenDec.len = 268435456

\* the row objects the reply plan rows of request r stand for
ExpectedRows(r, kinds) ==
    [k \in 1..Len(kinds) |->
        IF kinds[k] = "plain" THEN (<<110>> :> <<Digit(r)>>)
        ELSE (<<109, 101, 115, 115, 97, 103, 101>> :> <<114, Digit(r)>>)]

\* the =message= value of the !trap sentence the router sends for request r
TrapMessage(r) == Val(<<116, Digit(r)>>)

\* request r was settled with the reply the router made for r
OwnReply(r) ==
    /\ plan[r].term # "none"
    /\ plan[r].term \in {"done", "empty"} =>
          (outcome[r].st = "resolved" /\ outcome[r].rows = ExpectedRows(r, plan[r].rows))
    /\ plan[r].term \in {"trap", "fatal"} =>
          (/\ outcome[r].st = "rejected"
           /\ outcome[r].err \in {TrapMessage(r), Val(<<114, Digit(r)>>),
                                  Lit("RouterOS error")})

\* C1: on a logged-in connection whose data events carry complete sentences
\* in any grouping, the k-th terminal sentence settles the k-th submitted
\* request, with the reply the router made for that request.
C1_FifoSettlement ==
    /\ Len(settleLog) <= Len(submitted)
    /\ \A k \in 1..Len(settleLog) :
          /\ settleLog[k].req = submitted[k]
          /\ settleLog[k].term = k
          /\ OwnReply(settleLog[k].req)

C1_Witness ==
    /\ Len(settleLog) = MaxReq
    /\ settleLog[1].behind >= 1
    /\ outcome[1].st = "resolved" /\ Len(outcome[1].rows) = 2
    /\ outcome[2].st = "rejected"

TeardownErrors ==
    {Lit("Connection timeout"), Lit("socket error"), Lit("Closed by caller"),
     Lit("Connection closed unexpectedly")}

\* C5 (as claimed): a !trap carrying =message=M rejects the head request, and
\* only it, with M; every request queued behind it stays queued in order and
\* is later settled by its own reply (or by a teardown of the connection).
C5_TrapIsolation ==
    \A k \in 1..Len(settleLog) :
        LET r == settleLog[k].req IN
        plan[r].term = "trap" =>
            /\ outcome[r].st = "rejected"
            /\ outcome[r].err = TrapMessage(r)
            /\ \A j \in (k + 1)..Len(submitted) :
                  LET r2 == submitted[j] IN
                  \/ InQueue(queue, r2) /\ outcome[r2].st = "pending"
                  \/ j <= Len(settleLog) /\ settleLog[j].req = r2 /\ OwnReply(r2)
                  \/ destroyed /\ outcome[r2].st = "rejected"
                       /\ outcome[r2].err \in TeardownErrors

\* the part of C5 that does not depend on the text of the message
C5_IsolationOnly ==
    \A k \in 1..Len(settleLog) :
        LET r == settleLog[k].req IN
        plan[r].term = "trap" =>
            /\ outcome[r].st = "rejected"
            /\ \A j \in (k + 1)..Len(submitted) :
                  LET r2 == submitted[j] IN
                  \/ InQueue(queue, r2) /\ outcome[r2].st = "pending"
                  \/ j <= Len(settleLog) /\ settleLog[j].req = r2 /\ OwnReply(r2)
                  \/ destroyed /\ outcome[r2].st = "rejected"
                       /\ outcome[r2].err \in TeardownErrors

-----------------------------------------------------------------------------
(* MikrotikService.connect and the pool, checked under SpecPool *)

Started == {c \in 1..NCalls : callers[c].pc # "idle"}

\* the rosConnect calls in progress: made, not settled, socket not yet gone
InFlight ==
    {c \in 1..NCalls : /\ callers[c].pc = "awaiting"
                       /\ conns[c].sock \in {"connecting", "open"}}

\* the live connections: logged in, transport open, not destroyed
Live ==
    {n \in 1..NCalls : /\ conns[n].loggedIn
                       /\ conns[n].sock = "open"
                       /\ ~conns[n].destroyed}

\* C6: when exactly two connect calls are made, the second after the first
\* has returned and while its handle is open and undisturbed, the second call
\* returns the first call's handle and makes no rosConnect call of its own:
\* the only rosConnect calls are those of the first call, one more than the
\* number of its failed attempts (exactly one when no attempt failed).
C6_PoolReuse ==
    \A a \in 1..NCalls : \A b \in 1..NCalls :
        ( /\ Started = {a, b}
          /\ a \in callers[b].after )
        => /\ callers[b].pc = "returned"
           /\ callers[b].result = callers[a].result
           /\ callers[b].logins = 0
           /\ callers[a].logins = callers[a].fails + 1
           /\ (callers[a].attempt = 1 => callers[a].logins + callers[b].logins = 1)

\* two sequential calls, the first connected at its first attempt, the second
\* served while the first handle is still open
C6_Witness ==
    \E a \in 1..NCalls : \E b \in 1..NCalls :
        /\ Started = {a, b}
        /\ a \in callers[b].after
        /\ callers[a].attempt = 1
        /\ callers[b].pc = "returned"
        /\ Undisturbed(callers[b].result)

\* C7 (as claimed): at most one rosConnect is in progress at any time.
C7_SingleInFlight == Cardinality(InFlight) <= 1

\* C8 (as claimed): at most one live connection exists, and the pool
\* references every live connection.
C8_OneLiveConnection ==
    /\ Cardinality(Live) <= 1
    /\ \A n \in Live : pool = n

\* C9 (as claimed): a connect call gives up only after more than maxRetries
\* failed attempts, so that a fourth attempt is made when three have failed.
C9_FourthAttempt ==
    \A c \in 1..NCalls :
        callers[c].pc = "rejected" => callers[c].fails > maxRetries

\* C10: a connect call that rejects does so with the message of its last
\* failed attempt wrapped once with the router host, and at that moment the
\* pool holds no entry.
C10_RetriesExhausted ==
    \A c \in 1..NCalls :
        callers[c].pc = "rejected" =>
            /\ callers[c].err = WrapError(Host, callers[c].caught)
            /\ callers[c].caught # NoErr
            /\ callers[c].poolAtReject = 0

\* a call rejected after retrying, while another call had stored a connection
C10_Witness ==
    \E c \in 1..NCalls :
        /\ callers[c].pc = "rejected"
        /\ callers[c].attempt > 1
        /\ \E d \in 1..NCalls : callers[d].pc = "returned"

\* C11 (as claimed): a connect call does not stay suspended once the socket of
\* the connection it waits for has closed: by then it has returned a handle
\* or an error, or has gone on to its next attempt.
C11_ConnectSettles ==
    \A c \in 1..NCalls :
        conns[c].sock = "closed" => callers[c].pc # "awaiting"

\* C12 (as claimed): a handle returned by connect was not destroyed when it
\* was returned, so that write is still accepted on it.
C12_ReturnsUsable ==
    \A c \in 1..NCalls : callers[c].pc = "returned" => callers[c].usable

\* C15: once the close event of a connection that connect stored in the pool
\* has been processed, the pool does not map the router id to it.
C15_SelfRemoval ==
    \A n \in 1..NCalls :
        (conns[n].hook /\ conns[n].sock = "closed") => pool # n

\* a stored connection has closed after an error or timeout destroyed it, and
\* one that the router closed cleanly
C15_Witness ==
    /\ \E n \in 1..NCalls :
          conns[n].hook /\ conns[n].sock = "closed" /\ conns[n].destroyed
    /\ \E n \in 1..NCalls :
          conns[n].hook /\ conns[n].sock = "closed" /\ ~conns[n].destroyed

-----------------------------------------------------------------------------
(* Teardown of one connection, checked under Spec *)

Pending == {r \in 1..MaxReq : outcome[r].st = "pending"}

\* the requests that were enqueued and were rejected by a teardown, not by a
\* terminal sentence of their own
TornDown ==
    {r \in 1..MaxReq : /\ outcome[r].st = "rejected"
                       /\ InQueue([k \in 1..Len(submitted) |-> [id |-> submitted[k]]], r)
                       /\ \A k \in 1..Len(settleLog) : settleLog[k].req # r}

\* C13 (as claimed): once the socket has closed no request is enqueued any
\* more: a later write is rejected at once, so the queue of a closed
\* connection is empty and none of its requests is pending.
C13_FailFast == sock = "closed" => (queue = <<>> /\ Pending = {})

\* C14 (as claimed): every queued request that a close of the transport
\* rejected (not a close by the caller) carries the error "Connection closed
\* unexpectedly", whatever caused the close.
C14_UniformCloseError ==
    \A r \in TornDown :
        outcome[r].err # Lit("Closed by caller")
            => outcome[r].err = Lit("Connection closed unexpectedly")

\* C14 (amended): when the transport of a logged-in connection closes while
\* requests are queued, every queued request is rejected in that step, all
\* with the error of the cause: the timeout error on an inactivity timeout,
\* the socket's error on a socket error, "Connection closed unexpectedly" on
\* a close that found requests still queued.
C14_CloseErrorByCause ==
    [][\A r \in 1..MaxReq :
          (loggedIn /\ InQueue(queue, r)) =>
              /\ OnTimeout => outcome'[r] = Reject(outcome[r], Lit("Connection timeout"))
              /\ OnError => outcome'[r] = Reject(outcome[r], Lit("socket error"))
              /\ OnClose => outcome'[r] =
                                Reject(outcome[r], Lit("Connection closed unexpectedly"))
      ]_vars

\* two queued requests rejected together by a socket error
C14_Witness ==
    \E r1 \in TornDown : \E r2 \in TornDown :
        /\ r1 # r2
        /\ outcome[r1].err = Lit("socket error")
        /\ outcome[r2].err = Lit("socket error")

\* C16: api.close and disconnect reject every queued request in one step:
\* after the step the queue is empty, no request is pending and the
\* connection is destroyed; after disconnect the pool has no entry.
C16_CloseRejectsAll ==
    [][/\ (CallerClose \/ (pool # 0 /\ ServiceDisconnect)) =>
             (queue' = <<>> /\ destroyed'
                /\ \A r \in 1..MaxReq : outcome'[r].st # "pending")
       /\ ServiceDisconnect => pool' = 0
      ]_vars

\* two requests were queued when the caller closed, the pool entry is gone
C16_Witness ==
    /\ destroyed /\ pool = 0 /\ queue = <<>>
    /\ \E r1 \in TornDown : \E r2 \in TornDown :
          /\ r1 # r2
          /\ outcome[r1].err = Lit("Closed by caller")
          /\ outcome[r2].err = Lit("Closed by caller")

\* C17: an inactivity timeout on a logged-in connection destroys it and
\* rejects every queued request, leaving none pending; and while a connection
\* is not destroyed a request is rejected only by a terminal sentence of its
\* own, never by a timer.
C17_ConnectionTimeout ==
    /\ [][(OnTimeout /\ loggedIn) =>
             (destroyed' /\ queue' = <<>>
                /\ \A r \in 1..MaxReq : outcome'[r].st # "pending")]_vars
    /\ [](~destroyed => TornDown = {})

\* a timeout rejected two queued requests
C17_Witness ==
    /\ destroyed /\ loggedIn
    /\ \E r1 \in TornDown : \E r2 \in TornDown :
          /\ r1 # r2
          /\ outcome[r1].err = Lit("Connection timeout")
          /\ outcome[r2].err = Lit("Connection timeout")

\* the router answered /login with !trap or !fatal first
LoginRefused ==
    /\ loginPlan # <<>>
    /\ loginPlan[1][1] \in {W_trap, W_fatal}

\* the value of the =message= word of the refusal, "Login failed" without one
RefusalMessage ==
    LET s == loginPlan[1]
        at == {k \in 1..Len(s) : Len(s[k]) >= 9 /\ SubSeq(s[k], 1, 9) = W_message}
    IN  IF at = {} THEN Lit("Login failed")
        ELSE LET k == CHOOSE k \in at : \A j \in at : k <= j
             IN  Val(SubSeq(s[k], 10, Len(s[k])))

\* C19: the data event that brings a !trap or !fatal before login has
\* completed rejects the connect attempt with that sentence's =message= value
\* ("Login failed" when it has none) and destroys the connection; a connection
\* whose login was refused is never resolved to a caller nor stored in the
\* pool, whatever follows the refusal.
C19_LoginFailure ==
    /\ [][(LoginRefused /\ connP.st = "pending" /\ \E k \in 1..Len(rxCuts) : DataSentences(k))
            => /\ connP'.st = "rejected"
               /\ connP'.err = RefusalMessage
               /\ destroyed'
               /\ pool' = 0]_vars
    /\ [](LoginRefused => (connP.st # "resolved" /\ pool = 0))

\* a !trap then a !done were delivered in one data event
C19_Witness ==
    /\ LoginRefused
    /\ Len(loginPlan) = 2
    /\ loggedIn
    /\ destroyed
    /\ connP.st = "rejected"
    /\ connP.err = Val(<<110, 111>>)

-----------------------------------------------------------------------------
(* SpecCache: getPeers, the mutating calls and the cache (part_000:449-451,
   546-572, 632-690), for one router id.  Every call that needs the router
   goes through connect(): it takes the pooled connection or, when the pool
   has no entry, makes one of its own and stores it.  A connection answers
   its requests oldest first; the router reads or changes its peer list when
   it answers. *)

CACHE_TTL == 5000

\* the clock advances by one ms less than the TTL, or by the TTL
TickSteps == {CACHE_TTL - 1, CACHE_TTL}

\* the !re rows of a router that holds n peers, as parsed by the data handler
PeerRows(n) == [k \in 1..n |-> [id |-> k]]

\* peers.map((p) => this._parsePeer(p)): one object per row
ParsePeers(rows) == [k \in 1..Len(rows) |-> [peer |-> rows[k], parsed |-> TRUE]]

\* !forceRefresh && hit && Date.now() - hit.ts < CACHE_TTL
\* (the _Inclusive variant also serves an entry whose age is the TTL)
CacheHit_Inclusive(forceRefresh, hit, t) ==
    ~forceRefresh /\ hit # NoEntry /\ t - hit.ts <= CACHE_TTL
CacheHit(forceRefresh, hit, t) ==
    ~forceRefresh /\ hit # NoEntry /\ t - hit.ts < CACHE_TTL

\* this.cacheKey = `peers_${srv.id}` (part_000:466)
\* (the _Shared variant leaves the id out of the key)
cacheKey_Shared(id) == <<"peers_">>
cacheKey(id) == <<"peers_", id>>

\* the service modelled is that of server 0; server 1 is another router
ThisKey  == cacheKey(0)
OtherKey == cacheKey(1)

\* the object `cache` (part_000:449): the entries under the two keys
CacheObject ==
    [k \in {ThisKey, OtherKey} |-> IF k = ThisKey THEN cache ELSE otherCache]

\* the object after cache[key] = entry, or after delete cache[key] with
\* entry = NoEntry
CacheAssign(key, entry) ==
    LET new == [k \in DOMAIN CacheObject |->
                   IF k = key THEN entry ELSE CacheObject[k]]
    IN  /\ cache' = new[ThisKey]
        /\ otherCache' = new[OtherKey]

\* cache[this.cacheKey] = entry (part_000:570)
CacheStore(entry) == CacheAssign(ThisKey, entry)

\* delete cache[this.cacheKey] (part_000:547)
CacheDelete == CacheAssign(ThisKey, NoEntry)

\* the entry of the other router, made by its own service before
OtherEntry == [data |-> <<[peer |-> [id |-> 9], parsed |-> TRUE]>>, ts |-> 0]

IdleGet ==
    [pc |-> "idle", rows |-> <<>>, result |-> <<>>,
     fetches |-> 0,         \* api.write calls made by this call
     epoch |-> 0]           \* mutations applied when the router read `rows`

MutOps == {"addPeer", "togglePeer", "removePeer"}

IdleMut ==
    [pc |-> "idle", op |-> "none",
     seq |-> 0]             \* its place among the mutations the router applied

\* a call is known by a number: getPeers call g by g, mutating call m by
\* NGets + m; the connection a call makes carries the number of that call
MutId(m) == NGets + m
CacheCalls == 1..(NGets + NMuts)
CallPc(k) == IF k <= NGets THEN gets[k].pc ELSE muts[k - NGets].pc

\* mutations the router has applied so far
Epoch == Cardinality({m \in 1..NMuts : muts[m].seq > 0})

\* the request of call k is the oldest one of its connection the router has
\* not answered yet
NextToAnswer(k) ==
    \E c \in CacheCalls : \E i \in 1..Len(chan[c]) :
        /\ chan[c][i] = k
        /\ \A j \in 1..(i - 1) : CallPc(chan[c][j]) = "replied"

\* queue[0] of its connection is the request of call k (part_000:336)
IsCurrent(k) == \E c \in CacheCalls : chan[c] # <<>> /\ Head(chan[c]) = k

\* queue.shift() on the connection whose current request is that of call k
\* (part_000:340)
ShiftCurrent(k) ==
    [c \in CacheCalls |->
        IF chan[c] # <<>> /\ Head(chan[c]) = k THEN Tail(chan[c]) ELSE chan[c]]

\* `if (pool[this.poolKey]) return pool[this.poolKey]` (part_000:479), then
\* api.write on the pooled connection (part_000:418-427)
WriteOnPool(k) == chan' = [chan EXCEPT ![pool] = Append(@, k)]

\* pool[this.poolKey] = api after rosConnect resolved (part_000:517), then
\* api.write on the new connection
StoreAndWrite(k) ==
    /\ pool' = k
    /\ chan' = [chan EXCEPT ![k] = <<k>>]

CacheOnly ==
    UNCHANGED <<lenVars, codecVars, connVars, conns, callers, tlsVars, apiVars, strayVars,
                fnVars>>

\* getPeers(forceRefresh) up to the first await that waits for the network
GetPeers(g, forceRefresh) ==
    /\ gets[g].pc = "idle"
    /\ IF g = 1 THEN TRUE ELSE gets[g - 1].pc # "idle"
    /\ IF CacheHit(forceRefresh, cache, now)
       THEN /\ gets' = [gets EXCEPT ![g].pc = "done", ![g].result = cache.data]
            /\ UNCHANGED chan
       ELSE IF pool # 0
       THEN /\ gets' = [gets EXCEPT ![g].pc = "fetching", ![g].fetches = @ + 1]
            /\ WriteOnPool(g)
       ELSE /\ gets' = [gets EXCEPT ![g].pc = "connecting"]
            /\ UNCHANGED chan
    /\ UNCHANGED <<cache, otherCache, now, peers, muts, fetched, pool>>
    /\ CacheOnly

\* rosConnect resolved for call g: store in the pool, write the print request
GetConnected(g) ==
    /\ gets[g].pc = "connecting"
    /\ StoreAndWrite(g)
    /\ gets' = [gets EXCEPT ![g].pc = "fetching", ![g].fetches = @ + 1]
    /\ UNCHANGED <<cache, otherCache, now, peers, muts, fetched>>
    /\ CacheOnly

\* the router answers the print request of call g
RouterAnswers(g) ==
    /\ gets[g].pc = "fetching"
    /\ NextToAnswer(g)
    /\ gets' = [gets EXCEPT ![g].pc = "replied", ![g].rows = PeerRows(peers),
                            ![g].epoch = Epoch]
    /\ UNCHANGED <<cache, otherCache, now, peers, muts, chan, fetched, pool>>
    /\ CacheOnly

\* api.write resolved: map, store, return (part_000:569-571)
FetchDone(g) ==
    /\ gets[g].pc = "replied"
    /\ IsCurrent(g)
    /\ LET result == ParsePeers(gets[g].rows) IN
       /\ CacheStore([data |-> result, ts |-> now])
       /\ gets' = [gets EXCEPT ![g].pc = "done", ![g].result = result,
                               ![g].epoch = 0]
    /\ fetched' = gets[g].epoch
    /\ chan' = ShiftCurrent(g)
    /\ UNCHANGED <<now, peers, muts, pool>>
    /\ CacheOnly

\* connect() or api.write rejected: getPeers throws
FetchFail(g) ==
    /\ \/ gets[g].pc = "connecting"
       \/ gets[g].pc \in {"fetching", "replied"} /\ IsCurrent(g)
    /\ gets' = [gets EXCEPT ![g].pc = "failed", ![g].rows = <<>>, ![g].epoch = 0]
    /\ chan' = ShiftCurrent(g)
    /\ UNCHANGED <<cache, otherCache, now, peers, muts, fetched, pool>>
    /\ CacheOnly

\* addPeer, togglePeer or removePeer with valid arguments, up to the first
\* await that waits for the network (part_000:632-650, 669-671, 685-687)
Mutate(m, op) ==
    /\ muts[m].pc = "idle"
    /\ IF m = 1 THEN TRUE ELSE muts[m - 1].pc # "idle"
    /\ IF pool # 0
       THEN /\ muts' = [muts EXCEPT ![m].pc = "writing", ![m].op = op]
            /\ WriteOnPool(MutId(m))
       ELSE /\ muts' = [muts EXCEPT ![m].pc = "connecting", ![m].op = op]
            /\ UNCHANGED chan
    /\ UNCHANGED <<cache, otherCache, now, peers, gets, fetched, pool>>
    /\ CacheOnly

\* addPeer, togglePeer or removePeer with arguments that fail the checks
\* made before connect(): the call throws at once
\* (part_000:633-643, 670, 686)
MutateInvalid(m, op) ==
    /\ muts[m].pc = "idle"
    /\ IF m = 1 THEN TRUE ELSE muts[m - 1].pc # "idle"
    /\ muts' = [muts EXCEPT ![m].pc = "failed", ![m].op = op]
    /\ UNCHANGED <<cache, otherCache, now, peers, gets, chan, fetched, pool>>
    /\ CacheOnly

\* rosConnect resolved for mutating call m: store in the pool, write the request
MutConnected(m) ==
    /\ muts[m].pc = "connecting"
    /\ StoreAndWrite(MutId(m))
    /\ muts' = [muts EXCEPT ![m].pc = "writing"]
    /\ UNCHANGED <<cache, otherCache, now, peers, gets, fetched>>
    /\ CacheOnly

\* the peer count after the router applied op
Applied(op, n) ==
    IF op = "addPeer" THEN n + 1
    ELSE IF op = "removePeer" THEN n - 1
    ELSE n

\* the router applies the request of mutating call m and answers !done
RouterApplies(m) ==
    /\ muts[m].pc = "writing"
    /\ NextToAnswer(MutId(m))
    /\ Applied(muts[m].op, peers) \in 0..MaxPeers
    /\ peers' = Applied(muts[m].op, peers)
    /\ muts' = [muts EXCEPT ![m].pc = "replied", ![m].seq = Epoch + 1]
    /\ UNCHANGED <<cache, otherCache, now, gets, chan, fetched, pool>>
    /\ CacheOnly

\* api.write resolved: this.invalidateCache(), return
\* (part_000:660, 677, 689)
MutDone(m) ==
    /\ muts[m].pc = "replied"
    /\ IsCurrent(MutId(m))
    /\ CacheDelete
    /\ fetched' = 0
    /\ muts' = [muts EXCEPT ![m].pc = "done"]
    /\ chan' = ShiftCurrent(MutId(m))
    /\ UNCHANGED <<now, peers, gets, pool>>
    /\ CacheOnly

\* connect() or api.write rejected: the mutating call throws
MutFail(m) ==
    /\ \/ muts[m].pc = "connecting"
       \/ muts[m].pc \in {"writing", "replied"} /\ IsCurrent(MutId(m))
    /\ muts' = [muts EXCEPT ![m].pc = "failed"]
    /\ chan' = ShiftCurrent(MutId(m))
    /\ UNCHANGED <<cache, otherCache, now, peers, gets, fetched, pool>>
    /\ CacheOnly

\* invalidateCache() (part_000:546-548)
InvalidateCache ==
    /\ cache # NoEntry
    /\ CacheDelete
    /\ fetched' = 0
    /\ UNCHANGED <<now, peers, gets, muts, chan, pool>>
    /\ CacheOnly

\* time passes
Tick(d) ==
    /\ now + d <= MaxNow
    /\ now' = now + d
    /\ UNCHANGED <<cache, otherCache, peers, gets, muts, chan, fetched, pool>>
    /\ CacheOnly

\* the peer list of the router is changed by another tool
RouterChange(n) ==
    /\ n # peers
    /\ peers' = n
    /\ UNCHANGED <<cache, otherCache, now, gets, muts, chan, fetched, pool>>
    /\ CacheOnly

InitCache ==
    /\ cache = NoEntry
    /\ otherCache = OtherEntry
    /\ now = 0
    /\ peers = 0
    /\ gets = [g \in 1..NGets |-> IdleGet]
    /\ muts = [m \in 1..NMuts |-> IdleMut]
    /\ chan = [c \in CacheCalls |-> <<>>]
    /\ fetched = 0
    /\ pool = 0 /\ conns = <<>> /\ callers = <<>>
    /\ LenIdle
    /\ CodecIdle
    /\ ConnIdle
    /\ TlsIdle
    /\ ApiIdle
    /\ FnIdle

\* getPeers alone, with the clock and the other tools that change the router
NextCache ==
    \/ \E g \in 1..NGets : \E f \in BOOLEAN : GetPeers(g, f)
    \/ \E g \in 1..NGets : GetConnected(g)
    \/ \E g \in 1..NGets : RouterAnswers(g)
    \/ \E g \in 1..NGets : FetchDone(g)
    \/ \E g \in 1..NGets : FetchFail(g)
    \/ InvalidateCache
    \/ \E d \in TickSteps : Tick(d)
    \/ \E n \in 0..MaxPeers : RouterChange(n)

SpecCache == InitCache /\ [][NextCache]_vars

\* getPeers next to addPeer, togglePeer and removePeer, within one TTL
NextMutate ==
    \/ \E g \in 1..NGets : \E f \in BOOLEAN : GetPeers(g, f)
    \/ \E g \in 1..NGets : GetConnected(g)
    \/ \E g \in 1..NGets : RouterAnswers(g)
    \/ \E g \in 1..NGets : FetchDone(g)
    \/ \E g \in 1..NGets : FetchFail(g)
    \/ \E m \in 1..NMuts : \E op \in MutOps : Mutate(m, op)
    \/ \E m \in 1..NMuts : \E op \in MutOps : MutateInvalid(m, op)
    \/ \E m \in 1..NMuts : MutConnected(m)
    \/ \E m \in 1..NMuts : RouterApplies(m)
    \/ \E m \in 1..NMuts : MutDone(m)
    \/ \E m \in 1..NMuts : MutFail(m)

SpecMutate == InitCache /\ [][NextMutate]_vars

\* C20: a getPeers call is served from the cache, without a router request
\* and with the stored list, exactly when forceRefresh is false and an entry
\* exists whose age is below 5000 ms; every other call makes exactly one
\* router request and, when that resolves, stores the parsed rows with the
\* time of storing and returns them.  The stored list is always the list a
\* call returned, so a call served from the cache returns the identical list.
C20_CacheDecision ==
    /\ [][\A g \in 1..NGets : \A f \in BOOLEAN :
            GetPeers(g, f) =>
                IF ~f /\ cache # NoEntry /\ now - cache.ts < 5000
                THEN /\ gets'[g].pc = "done"
                     /\ gets'[g].fetches = 0
                     /\ gets'[g].result = cache.data
                ELSE /\ gets'[g].pc \in {"connecting", "fetching"}
                     /\ gets'[g].fetches = (IF pool = 0 THEN 0 ELSE 1)]_vars
    /\ [][\A g \in 1..NGets :
            FetchDone(g) =>
                /\ gets'[g].result = ParsePeers(gets[g].rows)
                /\ cache' = [data |-> gets'[g].result, ts |-> now]]_vars
    /\ [](\A g \in 1..NGets :
            /\ gets[g].fetches <= 1
            /\ gets[g].pc = "done" /\ gets[g].fetches = 1
                  => gets[g].result = ParsePeers(gets[g].rows))
    /\ [](cache # NoEntry =>
            \E h \in 1..NGets : /\ gets[h].pc = "done"
                                 /\ gets[h].fetches = 1
                                 /\ gets[h].result = cache.data)

\* one call fetched and stored; a later call was served that list from an
\* entry 4999 ms old although the router's list had changed
C20_Witness ==
    \E g \in 1..NGets : \E h \in 1..NGets :
        /\ gets[h].pc = "done" /\ gets[h].fetches = 1
        /\ gets[g].pc = "done" /\ gets[g].fetches = 0
        /\ cache # NoEntry /\ now - cache.ts = 4999
        /\ gets[g].result = cache.data
        /\ gets[g].result # ParsePeers(PeerRows(peers))

\* C21: when a getPeers call is served from the cache, the list in the cache
\* was read from the router after every mutation that addPeer, togglePeer or
\* removePeer had already reported as successful was applied.
C21_ReadAfterWrite ==
    [][\A g \in 1..NGets : \A f \in BOOLEAN :
          GetPeers(g, f) /\ CacheHit(f, cache, now) =>
              \A m \in 1..NMuts : muts[m].pc = "done" => fetched >= muts[m].seq]_vars

-----------------------------------------------------------------------------
(* Fingerprint pinning, checked under SpecTls *)

\* the value of a hexadecimal digit, 16 for any other character
HexValue(c) ==
    IF c \in 48..57 THEN c - 48
    ELSE IF c \in 97..102 THEN c - 87
    ELSE IF c \in 65..70 THEN c - 55
    ELSE 16

\* a fingerprint is configured and, read without ':' and white space and
\* without regard to case, differs from the digest of the certificate
FingerprintMismatch ==
    /\ tls.fingerprint # <<>>
    /\ LET digits == SelectSeq(tls.fingerprint, LAMBDA c : c # 58 /\ c # 32)
       IN  \/ Len(digits) # Len(tls.digest)
           \/ \E k \in 1..Len(digits) : HexValue(digits[k]) # HexValue(tls.digest[k])

\* C18: on a fingerprint mismatch the /login sentence is never written, the
\* router never answers it, the connection is never resolved to a caller nor
\* stored in the pool, and once the handshake is over the attempt is rejected.
C18_FingerprintPinning ==
    FingerprintMismatch =>
        /\ sock # "open"
        /\ toRouter = <<>>
        /\ loginPlan = <<>>
        /\ ~loggedIn
        /\ connP.st # "resolved"
        /\ pool = 0
        /\ sock # "connecting" => connP.st = "rejected"

\* a mismatching certificate whose chain verifies was refused
C18_Witness ==
    /\ FingerprintMismatch
    /\ tls.chainOk
    /\ sock = "closed"
    /\ connP.st = "rejected"

-----------------------------------------------------------------------------
(* Sentences without a request, checked under SpecStray *)

\* C22: a data event whose sentences find a logged-in connection with an
\* empty queue changes nothing: no promise is settled, the queue stays empty,
\* the flags, the buffer and the socket stay as they were, nothing is kept
\* that a later request could receive, and the pool entry stays.
C22_StrayIgnored ==
    [][\A k \in 1..Len(rxCuts) :
          (loggedIn /\ queue = <<>> /\ DataSentences(k)) =>
              /\ UNCHANGED <<sock, loggedIn, destroyed, buf, queue, connP, outcome,
                             settleLog, submitted, pool>>
              /\ sock' = "open"]_vars

\* the first terminal sentence after login found no request and was skipped;
\* the request submitted afterwards was resolved, by the second terminal
\* sentence, with its own rows
C22_Witness ==
    /\ strays = 1
    /\ Len(settleLog) >= 1
    /\ settleLog[1].term = 2
    /\ outcome[settleLog[1].req].st = "resolved"
    /\ OwnReply(settleLog[1].req)
    /\ loggedIn /\ ~destroyed /\ sock = "open"

-----------------------------------------------------------------------------
(* Row accumulation, checked under Spec *)

\* the !re sentences the router sent for request r
RowsSent(r) == [k \in 1..Len(plan[r].rows) |-> RowSentence(r, plan[r].rows[k])]

\* C23: a request resolved by !done or !empty holds one row per !re sentence
\* the router sent between the previous terminal sentence and its own, in
\* that order, each row made of the words of its sentence, so none of
\* another request's and none when there was no !re sentence; until then
\* the sentences are kept with the oldest request only.
C23_RowAccumulation ==
    /\ \A r \in 1..MaxReq :
          (outcome[r].st = "resolved" /\ plan[r].term \in {"done", "empty"}) =>
              /\ Len(outcome[r].rows) = Len(RowsSent(r))
              /\ \A k \in 1..Len(RowsSent(r)) :
                    outcome[r].rows[k] = ParseWords(Tail(RowsSent(r)[k]), <<>>)
    /\ \A i \in 1..Len(queue) :
          /\ i > 1 => queue[i].accumulator = <<>>
          /\ Len(queue[i].accumulator) <= Len(RowsSent(queue[i].id))
          /\ \A k \in 1..Len(queue[i].accumulator) :
                queue[i].accumulator[k] = RowsSent(queue[i].id)[k]

\* two requests were outstanding together; the first resolved with no row,
\* the second with its two rows
C23_Witness ==
    /\ Len(settleLog) = 2
    /\ settleLog[1].behind >= 1
    /\ outcome[settleLog[1].req].st = "resolved"
    /\ outcome[settleLog[1].req].rows = <<>>
    /\ outcome[settleLog[2].req].st = "resolved"
    /\ Len(outcome[settleLog[2].req].rows) = 2
    /\ outcome[settleLog[2].req].rows[1] # outcome[settleLog[2].req].rows[2]

-----------------------------------------------------------------------------
(* SpecRow: the row parser of the data handler (part_000:350-361) on its own,
   applied to one !re sentence *)

\* attribute words have at most MaxWordLen characters
RowAlphabet == {61, 107}
RowWords == SeqsUpTo(RowAlphabet, MaxWordLen)

\* ["!re", "=name=Alpha", "=allowed-address=10.0.0.2/32,fd00::2/128"]
ExampleRow ==
    <<W_re,
      <<61, 110, 97, 109, 101, 61, 65, 108, 112, 104, 97>>,
      <<61, 97, 108, 108, 111, 119, 101, 100, 45, 97, 100, 100, 114, 101, 115, 115, 61, 49, 48, 46, 48, 46, 48, 46, 50, 47, 51, 50, 44, 102, 100, 48, 48, 58, 58, 50, 47, 49, 50, 56>>>>

\* a !re sentence with one or two words, or the example
RowInputs ==
    {<<W_re, w>> : w \in RowWords}
        \cup {<<W_re, w1, w2>> : w1 \in RowWords, w2 \in RowWords}
        \cup {ExampleRow}

InitRow ==
    /\ row \in {[sentence |-> s, obj |-> <<>>, parsed |-> FALSE] : s \in RowInputs}
    /\ peerIo = <<>>
    /\ pendingResolve = 0 /\ pendingReject = 0 /\ pendingData = <<>>
    /\ LenIdle
    /\ CodecIdle
    /\ ConnIdle
    /\ PoolIdle
    /\ TlsIdle
    /\ ApiIdle
    /\ CacheIdle

\* the function given to .map in part_000:352-360
RowParse ==
    /\ ~row.parsed
    /\ row' = [row EXCEPT !.obj = ParseRow(row.sentence), !.parsed = TRUE]
    /\ UNCHANGED <<lenVars, codecVars, connVars, strayVars, poolVars, tlsVars, apiVars, cacheVars,
                   peerIo, slotVars>>

NextRow == RowParse

SpecRow == InitRow /\ [][NextRow]_vars

\* w has a '=' after its first character
Keyed(w) == \E k \in 2..Len(w) : w[k] = 61
\* the place of the first '=' after the first character
FirstEq(w) == CHOOSE k \in 2..Len(w) : w[k] = 61 /\ \A j \in 2..(k - 1) : w[j] # 61
KeyOf(w) == SubSeq(w, 2, FirstEq(w) - 1)
ValueOf(w) == SubSeq(w, FirstEq(w) + 1, Len(w))

\* C24: the object made of a !re sentence has, for every word of the form
\* '=' key '=' value, the entry key -> value, where key ends before the first
\* '=' after the leading one and value is all that follows it, '=' included
\* (of two words with the same key the later one counts); it has no other
\* entries than those of the words with a '=' after their first character;
\* the example sentence gives {name: "Alpha", "allowed-address":
\* "10.0.0.2/32,fd00::2/128"}.
C24_RowParsing ==
    row.parsed =>
        /\ \A i \in 2..Len(row.sentence) :
              LET w == row.sentence[i] IN
              (/\ Keyed(w) /\ w[1] = 61
               /\ \A j \in (i + 1)..Len(row.sentence) :
                     ~(Keyed(row.sentence[j]) /\ KeyOf(row.sentence[j]) = KeyOf(w)))
                  => /\ KeyOf(w) \in DOMAIN row.obj
                     /\ row.obj[KeyOf(w)] = ValueOf(w)
        /\ DOMAIN row.obj =
              {KeyOf(row.sentence[i]) :
                  i \in {j \in 2..Len(row.sentence) : Keyed(row.sentence[j])}}
        /\ row.sentence = ExampleRow =>
              row.obj = (<<110, 97, 109, 101>> :> <<65, 108, 112, 104, 97>>) @@ (<<97, 108, 108, 111, 119, 101, 100, 45, 97, 100, 100, 114, 101, 115, 115>> :> <<49, 48, 46, 48, 46, 48, 46, 50, 47, 51, 50, 44, 102, 100, 48, 48, 58, 58, 50, 47, 49, 50, 56>>)

\* a word whose value ends in '=' and has a '=' inside was parsed
C24_Witness ==
    /\ row.parsed
    /\ \E i \in 2..Len(row.sentence) :
          /\ row.sentence[i] = <<61, 107, 61, 107, 61>>
          /\ row.obj[<<107>>] = <<107, 61>>

-----------------------------------------------------------------------------
(* SpecPeer: the private-key convention (part_000:578-601, 632-661).  addPeer
   puts the private key into the comment of the peer as JSON; the router
   keeps the attributes it was given and returns them in the row of the peer;
   _parsePeer reads the key back from the comment.  Strings are sequences of
   code units; the names S_... spell the string in the comment above them. *)

\* "Unknown"
S_Unknown == <<85, 110, 107, 110, 111, 119, 110>>
\* "{}"
S_braces == <<123, 125>>
\* "name"
S_name == <<110, 97, 109, 101>>
\* "comment"
S_comment == <<99, 111, 109, 109, 101, 110, 116>>
\* "allowed-address"
S_allowed == <<97, 108, 108, 111, 119, 101, 100, 45, 97, 100, 100, 114, 101, 115, 115>>
\* "disabled"
S_disabled == <<100, 105, 115, 97, 98, 108, 101, 100>>
\* "true"
S_true == <<116, 114, 117, 101>>
\* "privkey"
S_privkey == <<112, 114, 105, 118, 107, 101, 121>>
\* "created_at"
S_created == <<99, 114, 101, 97, 116, 101, 100, 95, 97, 116>>
\* "-"
S_dash == <<45>>
\* "/interface/wireguard/peers/add"
S_add == <<47, 105, 110, 116, 101, 114, 102, 97, 99, 101, 47, 119, 105, 114, 101, 103, 117, 97, 114, 100, 47, 112, 101, 101, 114, 115, 47, 97, 100, 100>>
\* "=interface=wg0"
S_interfaceEq == <<61, 105, 110, 116, 101, 114, 102, 97, 99, 101, 61, 119, 103, 48>>
\* "=name="
S_nameEq == <<61, 110, 97, 109, 101, 61>>
\* "=public-key="
S_pubEq == <<61, 112, 117, 98, 108, 105, 99, 45, 107, 101, 121, 61>>
\* "=allowed-address="
S_allowedEq == <<61, 97, 108, 108, 111, 119, 101, 100, 45, 97, 100, 100, 114, 101, 115, 115, 61>>
\* "=comment="
S_commentEq == <<61, 99, 111, 109, 109, 101, 110, 116, 61>>
\* "/32,"
S_32 == <<47, 51, 50, 44>>
\* "/128"
S_128 == <<47, 49, 50, 56>>
\* "2026-01-01T00:00:00.000Z"
S_iso == <<50, 48, 50, 54, 45, 48, 49, 45, 48, 49, 84, 48, 48, 58, 48, 48, 58, 48, 48, 46, 48, 48, 48, 90>>
\* " Alpha "
S_peerName == <<32, 65, 108, 112, 104, 97, 32>>
\* "10.0.0.2"
S_v4 == <<49, 48, 46, 48, 46, 48, 46, 50>>
\* "fd00::2"
S_v6 == <<102, 100, 48, 48, 58, 58, 50>>
\* "pUb="
S_pub == <<112, 85, 98, 61>>
\* "10.0.2"
S_badV4 == <<49, 48, 46, 48, 46, 50>>
\* "null"
S_null == <<110, 117, 108, 108>>
\* "false"
S_jfalse == <<102, 97, 108, 115, 101>>

\* the value of a property that is not there
Undefined == <<0 - 1>>

\* obj[key]
Get(obj, key) == IF key \in DOMAIN obj THEN obj[key] ELSE Undefined

\* x || dflt, for a string or undefined x
OrElse(x, dflt) == IF x = Undefined \/ x = <<>> THEN dflt ELSE x

\* str.includes(ch) for a one-character ch
Includes(str, ch) == \E k \in 1..Len(str) : str[k] = ch

RECURSIVE SplitOn(_, _)
\* str.split(ch) for a one-character ch
SplitOn(str, ch) ==
    IF ~Includes(str, ch) THEN <<str>>
    ELSE LET k == IndexOf(str, ch, 0)
         IN  <<SliceTo(str, 0, k)>> \o SplitOn(Slice(str, k + 1), ch)

WhiteSpace == {32, 9, 10, 13}

RECURSIVE TrimStart(_)
TrimStart(str) ==
    IF str # <<>> /\ Head(str) \in WhiteSpace THEN TrimStart(Tail(str)) ELSE str

RECURSIVE TrimEnd(_)
TrimEnd(str) ==
    IF str # <<>> /\ str[Len(str)] \in WhiteSpace
    THEN TrimEnd(SubSeq(str, 1, Len(str) - 1)) ELSE str

\* str.trim()
Trim(str) == TrimStart(TrimEnd(str))

IsDigit(c) == c \in 48..57

(* JSON values are [t, v]: t the type, v the string of a "str", the digits of
   a "num", the members (key :> value) of an "obj", <<>> otherwise. *)
JsNull == [t |-> "null", v |-> <<>>]
JsStr(str) == [t |-> "str", v |-> str]

JsonHex(d) == IF d < 10 THEN 48 + d ELSE 87 + d

\* how JSON.stringify writes one code unit of a string
JsonEscape(c) ==
    IF c = 34 THEN <<92, 34>>
    ELSE IF c = 92 THEN <<92, 92>>
    ELSE IF c = 8 THEN <<92, 98>>
    ELSE IF c = 9 THEN <<92, 116>>
    ELSE IF c = 10 THEN <<92, 110>>
    ELSE IF c = 12 THEN <<92, 102>>
    ELSE IF c = 13 THEN <<92, 114>>
    ELSE IF c < 32 THEN <<92, 117, 48, 48, JsonHex(c \div 16), JsonHex(c % 16)>>
    ELSE <<c>>

\* JSON.stringify of a string (the _Raw variant does not escape)
JsonQuote_Raw(str) == <<34>> \o str \o <<34>>
JsonQuote(str) ==
    <<34>> \o ConcatAll([k \in 1..Len(str) |-> JsonEscape(str[k])]) \o <<34>>

\* JSON.stringify({ privkey: privateKey, created_at: iso }) (part_000:645-648);
\* a property whose value is undefined is left out
StringifyComment(privateKey, iso) ==
    <<123>>
        \o (IF privateKey = Undefined THEN <<>>
            ELSE JsonQuote(S_privkey) \o <<58>> \o JsonQuote(privateKey) \o <<44>>)
        \o JsonQuote(S_created) \o <<58>> \o JsonQuote(iso)
        \o <<125>>

(* JSON.parse, for texts made of objects, strings, integers, true, false and
   null; the inputs hold no arrays and no fractions. *)
JsFail == [ok |-> FALSE, v |-> JsNull, next |-> 0]
JsOk(val, next) == [ok |-> TRUE, v |-> val, next |-> next]

RECURSIVE SkipWs(_, _)
SkipWs(text, i) ==
    IF i <= Len(text) /\ text[i] \in WhiteSpace THEN SkipWs(text, i + 1) ELSE i

\* the character an escape \e stands for, 0 for none
Unescape(e) ==
    IF e = 34 THEN 34
    ELSE IF e = 92 THEN 92
    ELSE IF e = 47 THEN 47
    ELSE IF e = 98 THEN 8
    ELSE IF e = 102 THEN 12
    ELSE IF e = 110 THEN 10
    ELSE IF e = 114 THEN 13
    ELSE IF e = 116 THEN 9
    ELSE 0

RECURSIVE JsonStringBody(_, _, _)
\* the characters of a string after its opening quote
JsonStringBody(text, i, acc) ==
    IF i > Len(text) THEN JsFail
    ELSE IF text[i] = 34 THEN JsOk(JsStr(acc), i + 1)
    ELSE IF text[i] = 92 THEN
        IF i + 1 > Len(text) THEN JsFail
        ELSE IF text[i + 1] = 117 THEN
            IF i + 5 <= Len(text) /\ \A k \in 2..5 : HexValue(text[i + k]) < 16
            THEN JsonStringBody(text, i + 6,
                     Append(acc, (4096 * HexValue(text[i + 2])) + (256 * HexValue(text[i + 3]))
                                 + (16 * HexValue(text[i + 4])) + HexValue(text[i + 5])))
            ELSE JsFail
        ELSE IF Unescape(text[i + 1]) # 0
            THEN JsonStringBody(text, i + 2, Append(acc, Unescape(text[i + 1])))
        ELSE JsFail
    ELSE IF text[i] < 32 THEN JsFail
    ELSE JsonStringBody(text, i + 1, Append(acc, text[i]))

\* `word` stands at place i of text
HasAt(text, i, word) ==
    i + Len(word) - 1 <= Len(text) /\ SubSeq(text, i, i + Len(word) - 1) = word

RECURSIVE DigitsEnd(_, _)
DigitsEnd(text, i) ==
    IF i <= Len(text) /\ IsDigit(text[i]) THEN DigitsEnd(text, i + 1) ELSE i

\* an integer: -? (0 | [1-9][0-9]*)
JsonNumber(text, i) ==
    LET d == IF text[i] = 45 THEN i + 1 ELSE i
        e == DigitsEnd(text, d)
    IN  IF e = d THEN JsFail
        ELSE IF text[d] = 48 /\ e > d + 1 THEN JsFail
        ELSE JsOk([t |-> "num", v |-> SubSeq(text, i, e - 1)], e)

RECURSIVE JsonValue(_, _)
RECURSIVE JsonMembers(_, _, _)

\* a value that starts at or after place i
JsonValue(text, i0) ==
    LET i == SkipWs(text, i0) IN
    IF i > Len(text) THEN JsFail
    ELSE IF text[i] = 34 THEN JsonStringBody(text, i + 1, <<>>)
    ELSE IF text[i] = 123 THEN
        LET j == SkipWs(text, i + 1) IN
        IF j <= Len(text) /\ text[j] = 125
        THEN JsOk([t |-> "obj", v |-> <<>>], j + 1)
        ELSE JsonMembers(text, j, <<>>)
    ELSE IF HasAt(text, i, S_null) THEN JsOk(JsNull, i + 4)
    ELSE IF HasAt(text, i, S_true) THEN JsOk([t |-> "true", v |-> <<>>], i + 4)
    ELSE IF HasAt(text, i, S_jfalse) THEN JsOk([t |-> "false", v |-> <<>>], i + 5)
    ELSE JsonNumber(text, i)

\* the members of an object from place i on; of two members with the same key
\* the later one counts
JsonMembers(text, i, obj) ==
    IF i > Len(text) \/ text[i] # 34 THEN JsFail
    ELSE LET key == JsonStringBody(text, i + 1, <<>>) IN
    IF ~key.ok THEN JsFail
    ELSE LET c == SkipWs(text, key.next) IN
    IF c > Len(text) \/ text[c] # 58 THEN JsFail
    ELSE LET val == JsonValue(text, c + 1) IN
    IF ~val.ok THEN JsFail
    ELSE LET d    == SkipWs(text, val.next)
             obj2 == Put(obj, key.v.v, val.v)
         IN
    IF d > Len(text) THEN JsFail
    ELSE IF text[d] = 125 THEN JsOk([t |-> "obj", v |-> obj2], d + 1)
    ELSE IF text[d] = 44 THEN JsonMembers(text, SkipWs(text, d + 1), obj2)
    ELSE JsFail

\* JSON.parse(text): not ok when it throws
JsonParse(text) ==
    LET r == JsonValue(text, 1)
    IN  IF r.ok /\ SkipWs(text, r.next) = Len(text) + 1 THEN r ELSE JsFail

\* the body of the try block (part_000:585-586): JSON.parse throws on a text
\* that is not JSON, and reading .privkey of null throws
ReadPrivkey(comment) ==
    LET r == JsonParse(OrElse(comment, S_braces)) IN
    IF ~r.ok \/ r.v.t = "null" THEN [threw |-> TRUE, privkey |-> JsNull]
    ELSE IF r.v.t = "obj" /\ S_privkey \in DOMAIN r.v.v
    THEN [threw |-> FALSE, privkey |-> r.v.v[S_privkey]]
    ELSE [threw |-> FALSE, privkey |-> JsNull]

\* let privkey = null; try { ... } catch { } (part_000:583-589)
TryPrivkey(comment) ==
    LET r == ReadPrivkey(comment)
    IN  IF r.threw THEN [threw |-> FALSE, privkey |-> JsNull] ELSE r

NonEmpty(str) == str # <<>>
HasColon(str) == Includes(str, 58)

\* addrs.find((a) => a.includes(ch))?.split("/")[0] ?? "-"
FirstAddress(addrs, ch) ==
    LET Has(a) == Includes(a, ch)
        found == SelectSeq(addrs, Has)
    IN  IF found = <<>> THEN S_dash ELSE SplitOn(found[1], 47)[1]

\* MikrotikService._parsePeer (part_000:578-601); the result holds the row
\* itself for `...peer`
_parsePeer(peer) ==
    LET parts == SplitOn(OrElse(Get(peer, S_allowed), <<>>), 44)
        addrs == SelectSeq([k \in 1..Len(parts) |-> Trim(parts[k])], NonEmpty)
        key   == TryPrivkey(Get(peer, S_comment))
    IN  [peer    |-> peer,
         name    |-> OrElse(Get(peer, S_name), S_Unknown),
         privkey |-> key.privkey,
         ipv4    |-> FirstAddress(addrs, 46),
         ipv6    |-> FirstAddress(addrs, 58),
         enabled |-> Get(peer, S_disabled) # S_true,
         threw   |-> key.threw]

\* /^\d{1,3}(\.\d{1,3}){3}$/.test(v4)
IsIPv4(v4) ==
    LET parts == SplitOn(v4, 46)
    IN  /\ Len(parts) = 4
        /\ \A k \in 1..4 : /\ Len(parts[k]) \in 1..3
                           /\ \A j \in 1..Len(parts[k]) : IsDigit(parts[k][j])

\* x?.trim() is not empty
Filled(x) == x # Undefined /\ Trim(x) # <<>>

\* the checks of addPeer before it connects (part_000:633-643)
ValidPeer(data) ==
    /\ Filled(data.name) /\ Filled(data.ipv4) /\ Filled(data.ipv6)
    /\ Filled(data.publicKey)
    /\ IsIPv4(Trim(data.ipv4))
    /\ HasColon(Trim(data.ipv6))

\* the words addPeer writes (part_000:645-658)
AddPeerWords(data, iso) ==
    << S_add,
       S_interfaceEq,
       S_nameEq \o Trim(data.name),
       S_pubEq \o Trim(data.publicKey),
       S_allowedEq \o Trim(data.ipv4) \o S_32 \o Trim(data.ipv6) \o S_128,
       S_commentEq \o StringifyComment(data.privateKey, iso) >>

\* private keys have at most MaxKeyLen characters
KeyAlphabet == {34, 92, 61, 107, 10}
PrivateKeys == SeqsUpTo(KeyAlphabet, MaxKeyLen) \cup {Undefined}

PeerData(privateKey, ipv4) ==
    [name |-> S_peerName, ipv4 |-> ipv4, ipv6 |-> S_v6, publicKey |-> S_pub,
     privateKey |-> privateKey]

\* comments of peers made by other tools: not JSON
NotJson ==
    { <<111, 102, 102, 105, 99, 101, 32, 112, 99>>,
      <<123>>,
      <<123, 34, 112, 114, 105, 118, 107, 101, 121, 34, 58, 34, 81, 34>>,
      <<123, 112, 114, 105, 118, 107, 101, 121, 58, 49, 125>> }
\* JSON without a privkey member
NoPrivkey ==
    { <<123, 125>>,
      <<32, 123, 34, 110, 111, 116, 101, 34, 58, 34, 120, 34, 125, 32>>,
      <<110, 117, 108, 108>>,
      <<55>>,
      <<34, 115, 34>>,
      <<123, 34, 97, 34, 58, 34, 98, 34, 44, 34, 99, 34, 58, 110, 117, 108, 108, 125>>,
      <<116, 114, 117, 101>> }
\* JSON with a privkey member
OtherPrivkey ==
    { <<123, 34, 112, 114, 105, 118, 107, 101, 121, 34, 58, 34, 81, 61, 34, 125>>,
      <<123, 34, 112, 114, 105, 118, 107, 101, 121, 34, 58, 110, 117, 108, 108, 125>> }

ForeignComments == NotJson \cup NoPrivkey \cup OtherPrivkey \cup {Undefined}

\* the row the router returns for a peer of another tool
ForeignRow(comment) ==
    <<W_re, S_nameEq \o <<66>>, S_allowedEq \o S_v6 \o S_128>>
        \o (IF comment = Undefined THEN <<>> ELSE <<S_commentEq \o comment>>)

NoData == PeerData(Undefined, <<>>)

IdlePeer ==
    [pc |-> "idle", data |-> NoData, comment |-> Undefined, sentence |-> <<>>,
     obj |-> <<>>, out |-> <<>>]

PeerOnly ==
    UNCHANGED <<lenVars, codecVars, connVars, strayVars, poolVars, tlsVars, apiVars,
                cacheVars, row, slotVars>>

InitPeer ==
    /\ \/ \E k \in PrivateKeys : \E v4 \in {S_v4, S_badV4} :
             peerIo = [IdlePeer EXCEPT !.pc = "call", !.data = PeerData(k, v4)]
       \/ \E c \in ForeignComments :
             peerIo = [IdlePeer EXCEPT !.pc = "stored", !.comment = c,
                                       !.sentence = ForeignRow(c)]
    /\ row = NoRow
    /\ pendingResolve = 0 /\ pendingReject = 0 /\ pendingData = <<>>
    /\ LenIdle
    /\ CodecIdle
    /\ ConnIdle
    /\ PoolIdle
    /\ TlsIdle
    /\ ApiIdle
    /\ CacheIdle

\* addPeer(data): it throws on data that is not valid; otherwise the router
\* is sent the add request and keeps the attributes of the peer
AddPeer ==
    /\ peerIo.pc = "call"
    /\ IF ValidPeer(peerIo.data)
       THEN peerIo' = [peerIo EXCEPT
                          !.pc = "stored",
                          !.sentence = <<W_re>> \o Tail(AddPeerWords(peerIo.data, S_iso))]
       ELSE peerIo' = [peerIo EXCEPT !.pc = "threw"]
    /\ PeerOnly

\* the print reply: the data handler makes the row of the peer
PrintPeer ==
    /\ peerIo.pc = "stored"
    /\ peerIo' = [peerIo EXCEPT !.pc = "printed", !.obj = ParseRow(peerIo.sentence)]
    /\ PeerOnly

\* peers.map((p) => this._parsePeer(p)) (part_000:569)
ParsePeer ==
    /\ peerIo.pc = "printed"
    /\ peerIo' = [peerIo EXCEPT !.pc = "parsed", !.out = _parsePeer(peerIo.obj)]
    /\ PeerOnly

NextPeer == AddPeer \/ PrintPeer \/ ParsePeer

SpecPeer == InitPeer /\ [][NextPeer]_vars

\* C25: the row of a peer made by addPeer with private key K carries a
\* comment that is JSON with the members privkey = K and created_at, and
\* _parsePeer reports privkey = K for it; for a row without comment, with a
\* comment that is not JSON or with JSON that has no privkey member it
\* reports null; _parsePeer never throws.
C25_PrivkeyRoundTrip ==
    /\ (peerIo.pc \in {"printed", "parsed"} /\ peerIo.data # NoData
           /\ peerIo.data.privateKey # Undefined) =>
          LET c == JsonParse(Get(peerIo.obj, S_comment)) IN
          /\ c.ok /\ c.v.t = "obj"
          /\ DOMAIN c.v.v = {S_privkey, S_created}
          /\ c.v.v[S_privkey] = JsStr(peerIo.data.privateKey)
    /\ peerIo.pc = "parsed" =>
          /\ ~peerIo.out.threw
          /\ (peerIo.data # NoData /\ peerIo.data.privateKey # Undefined) =>
                peerIo.out.privkey = JsStr(peerIo.data.privateKey)
          /\ (peerIo.data = NoData
                 /\ peerIo.comment \in NotJson \cup NoPrivkey \cup {Undefined}) =>
                peerIo.out.privkey = JsNull

\* a key with a quote, a backslash and a line feed came back from the comment
C25_Witness ==
    /\ peerIo.pc = "parsed"
    /\ peerIo.data.privateKey = <<34, 92, 10>>
    /\ peerIo.out.privkey = JsStr(<<34, 92, 10>>)

-----------------------------------------------------------------------------
(* src/src/mikrotik.js: the rosConnect that keeps one pending request.  Its
   definitions carry the prefix mikrotik_.  Its encoder (mikrotik.js:6-31) is
   the one of part_000 for every word below 0x10000000 bytes, so the bytes on
   the wire are those of encodeSentence. *)

\* buffer[i] inside a bit operation: undefined counts as 0
mikrotik_ByteAt(data, i) == IF i < Len(data) THEN At(data, i) ELSE 0

\* buffer.slice(from, to)
mikrotik_BufferSlice(data, from, to) ==
    IF from >= Len(data) THEN <<>>
    ELSE Subarray(data, from, IF to > Len(data) THEN Len(data) ELSE to)

\* the length prefix at offset i (mikrotik.js:39-57)
mikrotik_Prefix(data, i) ==
    LET b == At(data, i) IN
    IF BitAnd(b, 224) = 224 THEN
        [skip |-> 4,
         len |-> (BitAnd(b, 15) * 16777216) + Shl(mikrotik_ByteAt(data, i + 1), 16)
                 + Shl(mikrotik_ByteAt(data, i + 2), 8) + mikrotik_ByteAt(data, i + 3)]
    ELSE IF BitAnd(b, 192) = 192 THEN
        [skip |-> 3,
         len |-> Shl(BitAnd(b, 31), 16) + Shl(mikrotik_ByteAt(data, i + 1), 8)
                 + mikrotik_ByteAt(data, i + 2)]
    ELSE IF BitAnd(b, 128) = 128 THEN
        [skip |-> 2, len |-> Shl(BitAnd(b, 63), 8) + mikrotik_ByteAt(data, i + 1)]
    ELSE [skip |-> 1, len |-> b]

RECURSIVE mikrotik_Words(_, _, _, _)
RECURSIVE mikrotik_Sentences(_, _, _)

\* the inner `while (i < buffer.length)` (mikrotik.js:38-65): a sentence whose
\* terminator is not in the buffer is dropped with the words read for it
mikrotik_Words(data, i, sentences, sentence) ==
    IF i >= Len(data) THEN mikrotik_Sentences(data, i, sentences)
    ELSE LET p == mikrotik_Prefix(data, i) IN
         IF p.len = 0
         THEN mikrotik_Sentences(data, i + p.skip, Append(sentences, sentence))
         ELSE mikrotik_Words(data, i + p.skip + p.len, sentences,
                  Append(sentence,
                         Utf8Decode(mikrotik_BufferSlice(data, i + p.skip,
                                                         i + p.skip + p.len))))

\* the outer `while (i < buffer.length)` (mikrotik.js:36-66)
mikrotik_Sentences(data, i, sentences) ==
    IF i < Len(data) THEN mikrotik_Words(data, i, sentences, <<>>) ELSE sentences

\* decodePackets(buffer) (mikrotik.js:33-68)
mikrotik_decodePackets(data) == mikrotik_Sentences(data, 0, <<>>)

\* the receive path of the data handler (mikrotik.js:88-90): append the
\* chunk, decode, empty the buffer
mikrotik_Receive(data, chunk) ==
    [sentences |-> mikrotik_decodePackets(data \o chunk), buf |-> <<>>]

\* words.find(w => w.startsWith("=message="))?.slice(9) || dflt
mikrotik_MessageOf(words, dflt) ==
    LET m == MessageOf(words, dflt)
    IN  IF m = Val(<<>>) THEN Lit(dflt) ELSE m

\* the mutable state the handlers of the connection work on; a resolver or
\* rejecter is known by the number of the request it belongs to, 0 is null
mikrotik_State ==
    [sock |-> sock, loggedIn |-> loggedIn, buf |-> buf, connP |-> connP,
     outcome |-> outcome, pendingResolve |-> pendingResolve,
     pendingReject |-> pendingReject, pendingData |-> pendingData]

mikrotik_Install(st) ==
    /\ sock' = st.sock
    /\ loggedIn' = st.loggedIn
    /\ buf' = st.buf
    /\ connP' = st.connP
    /\ outcome' = st.outcome
    /\ pendingResolve' = st.pendingResolve
    /\ pendingReject' = st.pendingReject
    /\ pendingData' = st.pendingData

\* the body of `for (const sentence of sentences)` (mikrotik.js:92-143)
mikrotik_OnSentence(st, sentence) ==
    IF Len(sentence) = 0 THEN st
    ELSE LET type == sentence[1] IN
    IF ~st.loggedIn THEN
        IF type = W_done
            THEN [st EXCEPT !.loggedIn = TRUE, !.connP = Resolve(st.connP, <<>>)]
        ELSE IF type = W_trap \/ type = W_fatal
            THEN [st EXCEPT
                    !.connP = Reject(st.connP, mikrotik_MessageOf(sentence, "Login failed")),
                    !.sock = SockDestroy(st.sock)]
        ELSE st
    ELSE LET data == Append(st.pendingData, sentence) IN
    IF type \in Terminals THEN
        LET cleared == [st EXCEPT !.pendingResolve = 0, !.pendingReject = 0,
                                  !.pendingData = <<>>]
        IN  IF st.pendingResolve = 0 THEN cleared
            ELSE IF type = W_trap \/ type = W_fatal
            THEN [cleared EXCEPT
                    !.outcome[st.pendingReject] =
                        Reject(@, mikrotik_MessageOf(ConcatAll(data), "RouterOS error"))]
            ELSE [cleared EXCEPT !.outcome[st.pendingResolve] = Resolve(@, ParseRows(data))]
    ELSE [st EXCEPT !.pendingData = data]

RECURSIVE mikrotik_OnSentences(_, _)
mikrotik_OnSentences(st, ss) ==
    IF ss = <<>> THEN st
    ELSE mikrotik_OnSentences(mikrotik_OnSentence(st, Head(ss)), Tail(ss))

\* sock.on("data", chunk) (mikrotik.js:87-144)
mikrotik_DataHandler(st, chunk) ==
    LET r == mikrotik_Receive(st.buf, chunk)
    IN  mikrotik_OnSentences([st EXCEPT !.buf = r.buf], r.sentences)

\* connect() after `await rosConnect` (mikrotik.js:211, 215): the handle is
\* stored when the promise resolves, the entry deleted when it rejects
mikrotik_ServiceContinue(st) ==
    pool' = IF connP.st = "pending" /\ st.connP.st = "resolved" THEN 1
            ELSE IF connP.st = "pending" /\ st.connP.st = "rejected" THEN 0
            ELSE pool

mikrotik_Only ==
    UNCHANGED <<lenVars, codecVars, destroyed, queue, settleLog, termSeen, strayVars,
                conns, callers, tlsVars, apiVars, cacheVars, row, peerIo>>

\* the callback of sock.connect (mikrotik.js:81-85)
mikrotik_OnConnect ==
    /\ sock = "connecting"
    /\ sock' = "open"
    /\ toRouter' = toRouter \o encodeSentence(LoginSentence)
    /\ UNCHANGED <<loggedIn, buf, connP, rx, rxCuts, plan, loginPlan, outcome,
                   submitted, pool, slotVars>>
    /\ mikrotik_Only

\* one data event carrying the next k complete sentences of the router
mikrotik_DataSentences(k) ==
    /\ sock = "open"
    /\ LET st == mikrotik_DataHandler(mikrotik_State,
                                      SubSeq(rx, 1, Sum(SubSeq(rxCuts, 1, k))))
       IN  /\ mikrotik_Install(st)
           /\ mikrotik_ServiceContinue(st)
           /\ IF st.sock = "open"
              THEN /\ rx' = Slice(rx, Sum(SubSeq(rxCuts, 1, k)))
                   /\ rxCuts' = Slice(rxCuts, k)
                   /\ UNCHANGED toRouter
              ELSE toRouter' = <<>> /\ rx' = <<>> /\ rxCuts' = <<>>
    /\ UNCHANGED <<plan, loginPlan, submitted>>
    /\ mikrotik_Only

\* api.write(words) (mikrotik.js:169-176), called by a holder of the handle
mikrotik_Write ==
    /\ connP.st = "resolved"
    /\ Cardinality(Issued) < MaxReq
    /\ LET r == Cardinality(Issued) + 1 IN
       /\ outcome' = [outcome EXCEPT ![r] = PendingP]
       /\ pendingResolve' = r
       /\ pendingReject' = r
       /\ pendingData' = <<>>
       /\ submitted' = Append(submitted, r)
       /\ toRouter' = IF sock = "open"
                      THEN toRouter \o encodeSentence(RequestWords(r))
                      ELSE toRouter
    /\ UNCHANGED <<sock, loggedIn, buf, connP, rx, rxCuts, plan, loginPlan, pool>>
    /\ mikrotik_Only

\* sock.on("timeout") (mikrotik.js:146-149)
mikrotik_OnTimeout ==
    /\ sock \in {"connecting", "open"}
    /\ LET st == [mikrotik_State EXCEPT
                     !.connP = Reject(connP, Lit("Connection timeout")),
                     !.sock = SockDestroy(sock)]
       IN  mikrotik_Install(st) /\ mikrotik_ServiceContinue(st)
    /\ toRouter' = <<>> /\ rx' = <<>> /\ rxCuts' = <<>>
    /\ UNCHANGED <<plan, loginPlan, submitted>>
    /\ mikrotik_Only

\* sock.on("error", err) (mikrotik.js:150-152); the socket is destroyed after
\* an error
mikrotik_OnError ==
    /\ sock \in {"connecting", "open"}
    /\ LET st == [mikrotik_State EXCEPT
                     !.connP = IF loggedIn THEN connP
                               ELSE Reject(connP, Lit("socket error")),
                     !.sock = SockDestroy(sock)]
       IN  mikrotik_Install(st) /\ mikrotik_ServiceContinue(st)
    /\ toRouter' = <<>> /\ rx' = <<>> /\ rxCuts' = <<>>
    /\ UNCHANGED <<plan, loginPlan, submitted>>
    /\ mikrotik_Only

\* sock.on("close") (mikrotik.js:153-166)
mikrotik_OnClose ==
    /\ sock = "closing"
    /\ sock' = "closed"
    /\ pool' = IF pool = 1 /\ connP.st = "resolved" THEN 0 ELSE pool
    /\ IF pendingReject # 0
       THEN /\ outcome' = [outcome EXCEPT
                              ![pendingReject] =
                                  Reject(@, Lit("Connection closed unexpectedly"))]
            /\ pendingReject' = 0
            /\ pendingResolve' = 0
            /\ UNCHANGED pendingData
       ELSE UNCHANGED <<outcome, slotVars>>
    /\ UNCHANGED <<loggedIn, buf, connP, toRouter, rx, rxCuts, plan, loginPlan,
                   submitted>>
    /\ mikrotik_Only

\* SpecSlot: the connection of mikrotik.js, its callers and the router; every
\* data event carries complete sentences
NextSlot ==
    \/ mikrotik_OnConnect
    \/ RouterReply
    \/ \E k \in 1..Len(rxCuts) : mikrotik_DataSentences(k)
    \/ mikrotik_Write
    \/ mikrotik_OnTimeout
    \/ mikrotik_OnError
    \/ RemoteEnd
    \/ mikrotik_OnClose

SpecSlot == Init /\ [][NextSlot]_vars

\* one data event of mikrotik.js carrying the next n bytes
mikrotik_Feed(n) ==
    /\ cphase = "feeding"
    /\ LET r == mikrotik_Receive(rbuf, SubSeq(stream, 1, n))
       IN  /\ rbuf' = r.buf
           /\ outS' = outS \o r.sentences
    /\ stream' = SubSeq(stream, n + 1, Len(stream))
    /\ chunks' = IF chunks = "none" THEN "one"
                 ELSE IF chunks = "one" THEN "two" ELSE "many"
    /\ UNCHANGED <<sents, cphase, lenVars, connVars, poolVars, tlsVars, apiVars, cacheVars,
                   strayVars, fnVars>>

\* SpecSlotCodec: the receive path of mikrotik.js on its own, fed with
\* chunks cut at arbitrary byte offsets
NextSlotCodec == SenderEncode \/ \E n \in 1..Len(stream) : mikrotik_Feed(n)

SpecSlotCodec == InitCodec /\ [][NextSlotCodec]_vars

\* C26: on the connection of mikrotik.js, once the router has answered every
\* request it was sent and all its sentences have been handled, every
\* request that was written, also one written while another was
\* outstanding, is settled, and with the reply the router made for it.
C26_ConcurrentWrites ==
    (/\ sock = "open" /\ loggedIn
     /\ Len(submitted) = MaxReq
     /\ toRouter = <<>> /\ rx = <<>>) =>
        \A r \in 1..MaxReq : outcome[r].st # "pending" /\ OwnReply(r)

\* C27: on the receive path of mikrotik.js, a sentence delivered in two data
\* events cut at any byte is decoded as it is from one chunk, and while it
\* is incomplete its bytes are kept in the buffer.
C27_CarryOver ==
    (Len(sents) = 1 /\ NoEmptyWord(sents[1])) =>
        /\ (Delivered /\ chunks = "two") =>
              outS = mikrotik_decodePackets(EncodeAll(sents))
        /\ (cphase = "feeding" /\ chunks = "one" /\ stream # <<>>) =>
              rbuf \o stream = EncodeAll(sents)


-----------------------------------------------------------------------------
(* The reassembler's buffer across data events (part_000:82-148, 302-304) *)

\* C28: every data event leaves as the new buffer exactly the bytes that
\* follow the last sentence it emitted: the encoding of the sentences
\* emitted by the call, followed by the remainder it keeps, is the buffer
\* the call decoded (the old remainder followed by the chunk).
C28_NoDataLoss ==
    [][\A n \in 1..Len(stream) :
          Feed(n) =>
              EncodeAll(SubSeq(outS', Len(outS) + 1, Len(outS'))) \o rbuf'
                  = rbuf \o SubSeq(stream, 1, n)]_vars

-----------------------------------------------------------------------------
(* The retry loop of MikrotikService.connect (part_000:478-533) *)

-----------------------------------------------------------------------------
(* The message of a rejection by !trap or !fatal (part_000:342-348) *)

\* C30 (as claimed): a request settled by a !trap or !fatal sentence is
\* rejected with the =message= value of that sentence, or with
\* "RouterOS error" when that sentence carries none, whatever the data rows
\* received for the request before it contain.
C30_TerminalMessage ==
    \A k \in 1..Len(settleLog) :
        LET r == settleLog[k].req IN
        plan[r].term \in {"trap", "fatal"} =>
            /\ outcome[r].st = "rejected"
            /\ outcome[r].err =
                  (IF plan[r].term = "trap" THEN TrapMessage(r)
                   ELSE Lit("RouterOS error"))

-----------------------------------------------------------------------------
(* The pool entry across failures and closes of other connections
   (part_000:507-521, 401-407, 536-542), checked under SpecPool *)

\* C31 (as claimed): the error handling of a failed connect attempt leaves
\* the pool entry of a live connection, stored by another caller, in place.
C31_FailureKeepsLive ==
    [][\A c \in 1..NCalls :
          (callers'[c].fails > callers[c].fails /\ pool \in Live) =>
              pool' = pool]_vars

\* C32: the close event of a connection that connect stored, processed
\* while the pool holds another connection, leaves the pool entry as it is.
C32_OldCloseKeepsNewer ==
    [][\A n \in 1..NCalls :
          (/\ conns[n].sock = "closing" /\ conns'[n].sock = "closed"
           /\ conns[n].hook
           /\ pool \notin {0, n}) =>
              pool' = pool]_vars

\* connection A was stored, then disconnected or destroyed; a later connect
\* stored B; A's close event came after that, and B is still the entry and
\* live
C32_Witness ==
    \E a \in 1..NCalls :
        /\ callers[a].closedBehind
        /\ conns[a].destroyed
        /\ pool \notin {0, a}
        /\ pool \in Live

-----------------------------------------------------------------------------
(* The login phase of one connection (part_000:311-324, 368-388), checked
   under Spec *)

\* C33: rosConnect's promise is resolved, and the handle stored in the pool,
\* only when the router's first answer to /login was !done; until then the
\* only bytes written to the socket are the /login sentence, no request has
\* been written or queued, and no reply has been matched to a request.
C33_NoRequestBeforeLogin ==
    /\ (connP.st = "resolved") => (loggedIn /\ loginPlan # <<>> /\ loginPlan[1] = <<W_done>>)
    /\ (pool # 0) => connP.st = "resolved"
    /\ (connP.st # "resolved") =>
          /\ toRouter \in {<<>>, encodeSentence(LoginSentence)}
          /\ submitted = <<>> /\ queue = <<>>
          /\ settleLog = <<>>
          /\ Issued = {}
    /\ (loginPlan = <<>> /\ sock = "open") => toRouter = encodeSentence(LoginSentence)

\* after a completed login a request was written and its reply matched
C33_Witness ==
    /\ connP.st = "resolved"
    /\ loginPlan[1] = <<W_done>>
    /\ Len(submitted) >= 1
    /\ Len(settleLog) >= 1

-----------------------------------------------------------------------------
(* Settlement of requests across all events of one connection
   (part_000:286-298, 336-363), checked under Spec *)

\* C34: resolve or reject has been called at most once for every request;
\* a request is in the queue exactly while its promise is pending on a
\* connection that is not destroyed; a destroyed connection has an empty
\* queue; and a further destroyAll on a destroyed connection changes nothing.
C34_SingleSettlement ==
    /\ \A r \in 1..MaxReq :
          /\ outcome[r].calls <= 1
          /\ outcome[r].st \in {"resolved", "rejected"} => ~InQueue(queue, r)
          /\ InQueue(queue, r) => outcome[r].st = "pending"
    /\ \A j, k \in 1..Len(queue) : queue[j].id = queue[k].id => j = k
    /\ destroyed => queue = <<>>
    /\ destroyed => \A e \in TeardownErrors :
                       /\ destroyAll(ConnState, e).outcome = outcome
                       /\ destroyAll(ConnState, e).queue = queue

\* one request settled by its reply and another by a teardown, and the close
\* event of the destroyed connection has been processed after the teardown
C34_Witness ==
    /\ destroyed /\ sock = "closed"
    /\ \E r \in 1..MaxReq : outcome[r].st = "resolved"
    /\ \E r \in 1..MaxReq :
          outcome[r].st = "rejected" /\ outcome[r].err \in TeardownErrors

-----------------------------------------------------------------------------
(* Progress of requests on one connection (part_000:390-427) *)

\* Spec with a transport that does not stay silent: a socket that is
\* connecting or open eventually reports a timeout unless another event
\* ends it first, and the close event of a socket that is closing is
\* eventually delivered
SpecLive == Init /\ [][Next]_vars /\ WF_vars(OnTimeout) /\ WF_vars(OnClose)

\* C35 (as claimed): with such a transport every request submitted with
\* write is eventually resolved or rejected.
C35_EventuallySettled ==
    \A r \in 1..MaxReq :
        (outcome[r].st = "pending") ~> (outcome[r].st \in {"resolved", "rejected"})

-----------------------------------------------------------------------------
(* The order of requests on the wire and in the queue (part_000:418-427),
   checked under Spec *)

\* the request numbers of the request sentences in the byte sequence data
WireIds(data) ==
    LET ss == SelectSeq(decodePackets(data).sentences,
                        LAMBDA s : s # LoginSentence /\ Len(s) = 2)
    IN  [k \in 1..Len(ss) |-> ss[k][2][6] - 48]

QueueIds == [k \in 1..Len(queue) |-> queue[k].id]

IsSuffix(s, t) ==
    Len(s) <= Len(t) /\ s = SubSeq(t, Len(t) - Len(s) + 1, Len(t))

\* C36: a write on a live connection queues its request and puts its
\* sentence on the wire in one step, whatever is queued before it; so on a
\* live connection the request sentences the router has not read yet are,
\* in order, the last requests written, each of them is queued, and the
\* queue holds the unsettled requests in the order they were written.
C36_WriteOrder ==
    /\ []((sock = "open" /\ ~destroyed) =>
              /\ IsSuffix(QueueIds, submitted)
              /\ IsSuffix(WireIds(toRouter), QueueIds))
    /\ [][(Write /\ sock = "open" /\ ~destroyed) =>
              LET r == Cardinality(Issued) + 1 IN
              /\ QueueIds' = Append(QueueIds, r)
              /\ toRouter' = toRouter \o encodeSentence(RequestWords(r))]_vars

\* a second request was written while the first was still queued, unread
\* by the router
C36_Witness ==
    /\ sock = "open" /\ ~destroyed
    /\ Len(queue) = 2
    /\ WireIds(toRouter) = <<1, 2>>

-----------------------------------------------------------------------------
(* The cache across failing calls and across routers (part_000:546-572,
   632-690) *)

\* the calls that have started and have neither returned nor thrown
Busy == {k \in CacheCalls : CallPc(k) \notin {"idle", "done", "failed"}}

\* getPeers and the mutating calls of any number of callers, of which at
\* most two are in progress at a time
NextFail ==
    \/ /\ Cardinality(Busy) <= 1
       /\ \/ \E g \in 1..NGets : \E f \in BOOLEAN : GetPeers(g, f)
          \/ \E m \in 1..NMuts : \E op \in MutOps : Mutate(m, op)
          \/ \E m \in 1..NMuts : \E op \in MutOps : MutateInvalid(m, op)
    \/ \E g \in 1..NGets : GetConnected(g)
    \/ \E g \in 1..NGets : RouterAnswers(g)
    \/ \E g \in 1..NGets : FetchDone(g)
    \/ \E g \in 1..NGets : FetchFail(g)
    \/ \E m \in 1..NMuts : MutConnected(m)
    \/ \E m \in 1..NMuts : RouterApplies(m)
    \/ \E m \in 1..NMuts : MutDone(m)
    \/ \E m \in 1..NMuts : MutFail(m)

SpecFail == InitCache /\ [][NextFail]_vars

\* C37: the step in which a getPeers, addPeer, togglePeer or removePeer call
\* of this router fails leaves this router's cache entry as it was, and no
\* step of any call of this router changes the entry of the other router.
C37_FailureKeepsCache ==
    [][/\ otherCache' = otherCache
       /\ \A g \in 1..NGets :
             (gets[g].pc # "failed" /\ gets'[g].pc = "failed") => cache' = cache
       /\ \A m \in 1..NMuts :
             (muts[m].pc # "failed" /\ muts'[m].pc = "failed") => cache' = cache]_vars

\* a getPeers call and a mutating call have failed while the cache held an
\* entry, and it holds it still; the other router's entry is in place
C37_Witness ==
    /\ cache # NoEntry
    /\ otherCache = OtherEntry
    /\ \E g \in 1..NGets : gets[g].pc = "failed"
    /\ \E m \in 1..NMuts : muts[m].pc = "failed" /\ muts[m].op = "removePeer"
    /\ \E g \in 1..NGets : gets[g].pc = "done" /\ gets[g].result = cache.data

-----------------------------------------------------------------------------
(* POST /api/:server/peers (server.js:259-307) with isIPTaken
   (part_001:153-165), for one router.  The service holds a pooled, logged-in
   connection; it answers its requests oldest first, and the router accepts
   every add request it is sent.  A handler runs from one await to the next
   without interruption. *)

NPosts == 2

\* "10.0.0.3"
S_v4b == <<49, 48, 46, 48, 46, 48, 46, 51>>
\* "FD00::3"
S_v6b == <<70, 68, 48, 48, 58, 58, 51>>
\* "k": the private key generateKeypair returns
S_key == <<107>>

\* request bodies: two addresses of each family, and a body without ipv4
PostBodies ==
    {[name |-> S_peerName, ipv4 |-> a, ipv6 |-> b] :
        a \in {S_v4, S_v4b}, b \in {S_v6, S_v6b}}
    \cup {[name |-> S_peerName, ipv4 |-> Undefined, ipv6 |-> S_v6]}

IdlePost == [pc |-> "idle", body |-> <<>>, status |-> 0]

\* const norm = (ip) => (ip || "").trim().split("/")[0].toLowerCase()
norm(ip) == ToLowerCase(SplitOn(Trim(OrElse(ip, <<>>)), 47)[1])

\* isIPTaken(peers, ipv4, ipv6).taken (part_001:153-165)
isIPTaken(list, ipv4, ipv6) ==
    \E k \in 1..Len(list) :
        \/ norm(list[k].ipv4) = norm(ipv4)
        \/ norm(list[k].ipv6) = norm(ipv6)

\* the argument the handler gives to svc.addPeer (server.js:285-290)
PostData(body) ==
    [name |-> Trim(body.name), ipv4 |-> Trim(body.ipv4), ipv6 |-> Trim(body.ipv6),
     publicKey |-> S_pub, privateKey |-> S_key]

\* the row the router keeps for a peer added with addPeer(data)
StoredRow(data) == <<W_re>> \o Tail(AddPeerWords(data, S_iso))

\* getPeers: the data handler's row objects, mapped by _parsePeer
PeersOf(rows) == [k \in 1..Len(rows) |-> _parsePeer(ParseRow(rows[k]))]

PostOnly ==
    /\ UNCHANGED <<lenVars, codecVars, connVars, strayVars, poolVars, tlsVars, fnVars, sug>>
    /\ UNCHANGED <<now, peers, gets, muts, chan, fetched>>

\* the handler up to its first await: the body checks, then getPeers(true)
\* writes the print request (server.js:262-279)
PostPeer(p, body) ==
    /\ posts[p].pc = "idle"
    /\ IF p = 1 THEN TRUE ELSE posts[p - 1].pc # "idle"
    /\ IF Filled(body.name) /\ Filled(body.ipv4) /\ Filled(body.ipv6)
       THEN /\ posts' = [posts EXCEPT ![p].pc = "listing", ![p].body = body]
            /\ wire' = Append(wire, [p |-> p, kind |-> "print"])
       ELSE /\ posts' = [posts EXCEPT ![p].pc = "responded", ![p].body = body,
                                      ![p].status = 400]
            /\ UNCHANGED wire
    /\ UNCHANGED <<routerPeers, replies, cache, otherCache>>
    /\ PostOnly

\* the router answers the oldest request: it sends its rows for a print
\* request and stores the peer of an add request
RouterServes ==
    /\ wire # <<>>
    /\ LET q == Head(wire) IN
       IF q.kind = "print"
       THEN /\ replies' = Append(replies, [p |-> q.p, rows |-> routerPeers])
            /\ UNCHANGED routerPeers
       ELSE /\ routerPeers' = Append(routerPeers, StoredRow(PostData(posts[q.p].body)))
            /\ replies' = Append(replies, [p |-> q.p, rows |-> <<>>])
    /\ wire' = Tail(wire)
    /\ UNCHANGED <<posts, cache, otherCache>>
    /\ PostOnly

\* what the handler does with the list getPeers(true) returned: isIPTaken,
\* then addPeer's own validation (server.js:279-290); after addPeer the
\* list is fetched again and the answer is 201 (server.js:293-302)
PostStep(pc, body, list) ==
    IF pc = "adding" THEN "relist"
    ELSE IF pc = "relisting" THEN "created"
    ELSE IF isIPTaken(list, Trim(body.ipv4), Trim(body.ipv6)) THEN "conflict"
    ELSE IF ValidPeer(PostData(body)) THEN "add"
    ELSE "error"

PostResume(p, step, entry) ==
    /\ posts' = [posts EXCEPT
                    ![p].pc = CASE step = "add" -> "adding"
                                [] step = "relist" -> "relisting"
                                [] OTHER -> "responded",
                    ![p].status = CASE step = "conflict" -> 409
                                    [] step = "error" -> 500
                                    [] step = "created" -> 201
                                    [] OTHER -> @]
    \* getPeers(true) stores the list it fetched; addPeer ends with
    \* invalidateCache
    /\ IF step = "relist" THEN CacheDelete ELSE CacheStore(entry)
    /\ wire' = CASE step = "add" -> Append(wire, [p |-> p, kind |-> "add"])
                 [] step = "relist" ->
                      Append(wire, [p |-> p, kind |-> "print"])
                 [] OTHER -> wire

PostParsed(p, list) ==
    PostResume(p, PostStep(posts[p].pc, posts[p].body, list),
               [data |-> list, ts |-> now])

\* the data event of the oldest reply: api.write resolves and the handler
\* that awaits it goes on to its next await or to its response
PostContinue ==
    /\ replies # <<>>
    /\ PostParsed(Head(replies).p, PeersOf(Head(replies).rows))
    /\ replies' = Tail(replies)
    /\ UNCHANGED routerPeers
    /\ PostOnly

\* the router holds no peer, or one peer made through this endpoint
InitPost ==
    /\ posts = [p \in 1..NPosts |-> IdlePost]
    /\ routerPeers \in
          {<<>>,
           <<StoredRow(PostData([name |-> S_peerName, ipv4 |-> S_v4, ipv6 |-> S_v6]))>>}
    /\ wire = <<>>
    /\ replies = <<>>
    /\ sug = <<>>
    /\ LenIdle
    /\ CodecIdle
    /\ ConnIdle
    /\ PoolIdle
    /\ TlsIdle
    /\ CacheIdle
    /\ FnIdle

NextPost ==
    \/ \E p \in 1..NPosts : \E body \in PostBodies : PostPeer(p, body)
    \/ RouterServes
    \/ PostContinue

SpecPost == InitPost /\ [][NextPost]_vars

\* the requests served one at a time: a request is accepted when no other
\* is under way
NextPostSerial ==
    \/ /\ \A p \in 1..NPosts : posts[p].pc \in {"idle", "responded"}
       /\ \E p \in 1..NPosts : \E body \in PostBodies : PostPeer(p, body)
    \/ RouterServes
    \/ PostContinue

SpecPostSerial == InitPost /\ [][NextPostSerial]_vars

\* no two peers of the list share an IPv4 or an IPv6 address
DistinctAddresses(list) ==
    \A i, j \in 1..Len(list) :
        i # j => /\ norm(list[i].ipv4) # norm(list[j].ipv4)
                 /\ norm(list[i].ipv6) # norm(list[j].ipv6)

\* C38 (as claimed): whatever the interleaving of the requests, no two peers
\* on the router have the same IPv4 or the same IPv6 address.
C38_NoDuplicateAddress ==
    DistinctAddresses(PeersOf(routerPeers))

(***************************************************************************)
(* GET /api/:server/suggest: findNextFreeIP over the peer list (part_001). *)
(* sug is [list, out, adds]: the peer list getPeers returns, the answer of *)
(* the last suggest request not yet used, and the number of peers made     *)
(* from a suggestion.                                                      *)
(***************************************************************************)

\* for (let host = 2; host <= 253; host++)
FirstHost == 2
LastHost == 253

\* the longest list of hand-made peers the router starts with, and the most
\* suggestions turned into peers
MaxManual == 2
MaxAdds == 3

\* srv.ipv4Prefix "10.0.0." and srv.ipv6Prefix "fd00::"
S_prefix4 == <<49, 48, 46, 48, 46, 48, 46>>
S_prefix6 == <<102, 100, 48, 48, 58, 58>>

\* the value of a digit character in parseInt, 99 for any other character
DigitValue(c) ==
    IF c \in 48..57 THEN c - 48
    ELSE IF c \in 97..122 THEN c - 87
    ELSE IF c \in 65..90 THEN c - 55
    ELSE 99

RECURSIVE ParseDigits(_, _, _, _)
\* the longest run of digits of the radix from position i (1-based), read
\* as a number; seen tells whether one digit was read
ParseDigits(str, i, radix, acc) ==
    IF i <= Len(str) /\ DigitValue(str[i]) < radix
    THEN ParseDigits(str, i + 1, radix,
                     [seen |-> TRUE, v |-> acc.v * radix + DigitValue(str[i])])
    ELSE acc

\* parseInt(str, radix) for radix 10 or 16: leading white space and a sign
\* are skipped, "0x" is skipped for radix 16, and the result is NaN when no
\* digit follows; undefined reads as the text "undefined"
parseInt(str, radix) ==
    IF str = Undefined THEN [nan |-> TRUE, v |-> 0]
    ELSE LET t == TrimStart(str)
             neg == t # <<>> /\ t[1] = 45
             u == IF t # <<>> /\ t[1] \in {43, 45} THEN Tail(t) ELSE t
             x == IF radix = 16 /\ Len(u) >= 2 /\ u[1] = 48 /\ u[2] \in {88, 120}
                  THEN Slice(u, 2) ELSE u
             d == ParseDigits(x, 1, radix, [seen |-> FALSE, v |-> 0])
         IN  [nan |-> ~d.seen, v |-> IF neg THEN 0 - d.v ELSE d.v]

RECURSIVE DigitsOf(_, _)
\* n.toString(radix) for n >= 0
DigitsOf(n, radix) ==
    LET d == n % radix
        c == IF d < 10 THEN 48 + d ELSE 87 + d
    IN  IF n < radix THEN <<c>> ELSE Append(DigitsOf(n \div radix, radix), c)

\* str.lastIndexOf(ch), 0-based, -1 when ch is not there
LastIndexOf(str, ch) ==
    IF ~Includes(str, ch) THEN 0 - 1
    ELSE (CHOOSE k \in 1..Len(str) :
              str[k] = ch /\ \A j \in (k + 1)..Len(str) : str[j] # ch) - 1

\* a number or null
NullNumber == [null |-> TRUE, v |-> 0]
AsNumber(p) == IF p.nan THEN NullNumber ELSE [null |-> FALSE, v |-> p.v]

parseLastOctetV4(ip) ==
    IF ip = Undefined \/ ip = <<>> \/ ip = S_dash THEN NullNumber
    ELSE LET clean == SplitOn(Trim(ip), 47)[1]
             parts == SplitOn(clean, 46)
         IN  AsNumber(parseInt(IF Len(parts) >= 4 THEN parts[4] ELSE Undefined,
                               10))

parseLastSegmentV6(ip) ==
    IF ip = Undefined \/ ip = <<>> \/ ip = S_dash THEN NullNumber
    ELSE LET clean == SplitOn(Trim(ip), 47)[1]
             idx == LastIndexOf(clean, 58)
         IN  IF idx < 0 THEN NullNumber
             ELSE AsNumber(parseInt(Slice(clean, idx + 1), 16))

\* the Set filled by the first loop of findNextFreeIP
usedV4(list) ==
    {n.v : n \in {parseLastOctetV4(list[k].ipv4) : k \in 1..Len(list)}
                 \ {NullNumber}}

usedV6(list) ==
    {n.v : n \in {parseLastSegmentV6(list[k].ipv6) : k \in 1..Len(list)}
                 \ {NullNumber}}

\* the second loop over the hosts that are in neither Set: it returns at
\* the first of them, and the function throws when there is none
NextFree(free, ipv4Prefix, ipv6Prefix) ==
    IF free = {} THEN [kind |-> "throws"]
    ELSE LET host == CHOOSE h \in free : \A g \in free : h <= g
         IN  [kind |-> "ok",
              ipv4 |-> ipv4Prefix \o DigitsOf(host, 10),
              ipv6 |-> ipv6Prefix \o DigitsOf(host, 16)]

\* the suggestion that looks at the IPv4 addresses only
findNextFreeIP_V4Only(list, ipv4Prefix, ipv6Prefix) ==
    NextFree((FirstHost..LastHost) \ usedV4(list), ipv4Prefix, ipv6Prefix)

findNextFreeIP(list, ipv4Prefix, ipv6Prefix) ==
    NextFree((FirstHost..LastHost) \ (usedV4(list) \cup usedV6(list)),
             ipv4Prefix, ipv6Prefix)

\* a peer as _parsePeer returns it, of which only the addresses matter here
AddressPeer(ipv4, ipv6) == [ipv4 |-> ipv4, ipv6 |-> ipv6]

\* peers made by hand on the router: without address, with the two host
\* numbers different and the IPv6 in capitals, the default routes, one
\* address only, and addresses of another subnet
ManualPeers ==
    {AddressPeer(S_dash, S_dash),
     AddressPeer(S_prefix4 \o <<50>>, <<70, 68, 48, 48, 58, 58, 65>>),
     AddressPeer(<<48, 46, 48, 46, 48, 46, 48>>, <<58, 58>>),
     AddressPeer(S_prefix4 \o <<51>>, S_dash),
     AddressPeer(S_dash, S_prefix6 \o <<50>>),
     AddressPeer(<<49, 48, 46, 48, 46, 49, 46, 52>>,
                 S_prefix6 \o <<49, 58, 51>>)}

\* the peers of the hosts FirstHost..n, as this endpoint makes them
Prefilled(n) ==
    [k \in 1..(n + 1 - FirstHost) |->
        AddressPeer(S_prefix4 \o DigitsOf(k + FirstHost - 1, 10),
                    S_prefix6 \o DigitsOf(k + FirstHost - 1, 16))]

SuggestLists ==
    {m \o Prefilled(n) : m \in SeqsUpTo(ManualPeers, MaxManual),
                         n \in {FirstHost - 1, 9, 15}}
    \cup {Prefilled(n) : n \in {LastHost - 2, LastHost}}

NoSuggestion == [kind |-> "none"]

SuggestOnly ==
    /\ UNCHANGED <<lenVars, codecVars, connVars, strayVars, poolVars, tlsVars, fnVars, cacheVars>>
    /\ UNCHANGED <<posts, routerPeers, wire, replies>>

\* GET /api/:server/suggest (server.js:239-255)
SuggestPeer ==
    /\ sug.out = NoSuggestion
    /\ sug' = [sug EXCEPT !.out = findNextFreeIP(sug.list, S_prefix4, S_prefix6)]
    /\ SuggestOnly

\* POST /api/:server/peers with the suggested addresses: 409 when isIPTaken
\* reports them, a new peer otherwise (server.js:279-294)
PostSuggested ==
    /\ sug.out.kind = "ok"
    /\ sug.adds < MaxAdds
    /\ sug' = [list |-> IF isIPTaken(sug.list, sug.out.ipv4, sug.out.ipv6)
                        THEN sug.list
                        ELSE Append(sug.list,
                                    AddressPeer(sug.out.ipv4, sug.out.ipv6)),
               out |-> NoSuggestion,
               adds |-> sug.adds + 1]
    /\ SuggestOnly

InitSuggest ==
    /\ sug \in {[list |-> l, out |-> NoSuggestion, adds |-> 0] : l \in SuggestLists}
    /\ posts = <<>>
    /\ routerPeers = <<>>
    /\ wire = <<>>
    /\ replies = <<>>
    /\ LenIdle
    /\ CodecIdle
    /\ ConnIdle
    /\ PoolIdle
    /\ TlsIdle
    /\ CacheIdle
    /\ FnIdle

NextSuggest ==
    \/ SuggestPeer
    \/ PostSuggested

SpecSuggest == InitSuggest /\ [][NextSuggest]_vars

\* the hosts that are the last IPv4 octet or the last IPv6 segment of a peer
UsedHosts(list) == usedV4(list) \cup usedV6(list)

\* the host whose decimal form ends the suggested IPv4 address, 0 if none
HostOf(out) ==
    LET fits == {h \in FirstHost..LastHost :
                    out.ipv4 = S_prefix4 \o DigitsOf(h, 10)}
    IN  IF fits = {} THEN 0 ELSE CHOOSE h \in fits : TRUE

\* C39: the answer of a suggest request is the pair of the smallest host of
\* 2..253 that is neither the last IPv4 octet nor the last IPv6 segment of a
\* peer, the IPv6 suffix being that host in hexadecimal; isIPTaken does not
\* report the pair on the same list; and the request throws only when no
\* host of the range is left.
C39_NextFreeIP ==
    /\ sug.out.kind = "throws" =>
          (FirstHost..LastHost) \subseteq UsedHosts(sug.list)
    /\ sug.out.kind = "ok" =>
          /\ HostOf(sug.out) \in FirstHost..LastHost
          /\ sug.out.ipv6 = S_prefix6 \o DigitsOf(HostOf(sug.out), 16)
          /\ (FirstHost..HostOf(sug.out)) \cap UsedHosts(sug.list)
                = FirstHost..(HostOf(sug.out) - 1)
          /\ ~isIPTaken(sug.list, sug.out.ipv4, sug.out.ipv6)

\* C39 witness: the last two hosts were suggested and made into peers, and
\* the next request throws.
C39_Witness ==
    /\ sug.out.kind = "throws"
    /\ sug.adds = 2
    /\ sug.list[Len(sug.list)].ipv6 = S_prefix6 \o <<102, 100>>

=============================================================================
